---------------------------- MODULE Spec2Model ----------------------------
(***************************************************************************)
(* Model of wokwi_client.transport.Transport: one websocket connection     *)
(* multiplexed into correlated request/response calls and an event stream. *)
(* Every asyncio suspension point (await) of the source is a boundary      *)
(* between two actions; the code between two awaits is one atomic action.  *)
(***************************************************************************)
EXTENDS Integers, Sequences, FiniteSets, TLC

(* ------------------------------ bounds -------------------------------- *)
MaxReq == 2          \* request() calls that allocate an id
MaxBinary == 1       \* binary frames skipped in front of one text frame
MaxListeners == 2    \* registrations under one event type
MaxNanos == 2        \* largest simulation time an event carries
MaxQueue == 2        \* events buffered in, or on their way into, EventQueues
MaxMonitors == 2     \* serial_monitor / serial_monitor_cat calls on one facade
MaxCalls == 2        \* wait_until_simulation_time calls, each of them sending
                     \* at most two commands

(* ------------------------- program constants -------------------------- *)
PROTOCOL_VERSION == 1
MSG_TYPE_HELLO == "hello"
MSG_TYPE_RESPONSE == "response"
MSG_TYPE_EVENT == "event"
MSG_TYPE_ERROR == "error"

Ids == 1..(2 * MaxCalls)
FrameIds == 1..(MaxReq + 1)      \* MaxReq + 1: an id the client never issues
EventTypes == {"sim:pause", "serial-monitor:data"}
Callbacks == {"cb1", "cb2"}      \* callbacks a user of the Transport registers
\* EventQueue objects, each one registering its own closure as listener:
\* WokwiClient._pause_queue, the queue of one monitor_lines generator, and a
\* queue made by a user of the class
Queues == {"pause_queue", "monitor_queue", "user_queue"}
\* the event_type each of them is constructed with
QueueType(q) == IF q = "pause_queue" THEN "sim:pause" ELSE "serial-monitor:data"
Versions == {PROTOCOL_VERSION, PROTOCOL_VERSION + 1}

(* ------------------------------ frames -------------------------------- *)
\* One websocket message.  raw: "binary" | "garbage" (text, not JSON) | "json".
\* A json message has type "-" when the "type" key is missing.
Msg(raw, type, id, error, ver, app, event, nanos) ==
    [raw |-> raw, type |-> type, id |-> id, error |-> error,
     ver |-> ver, app |-> app, event |-> event, nanos |-> nanos]

BinaryMsg == Msg("binary", "-", 0, FALSE, 0, FALSE, "-", 0)
GarbageMsg == Msg("garbage", "-", 0, FALSE, 0, FALSE, "-", 0)
NoTypeMsg == Msg("json", "-", 0, FALSE, 0, FALSE, "-", 0)
ErrorMsg == Msg("json", MSG_TYPE_ERROR, 0, FALSE, 0, FALSE, "-", 0)
HelloMsg(v, a) == Msg("json", MSG_TYPE_HELLO, 0, FALSE, v, a, "-", 0)
ResponseMsg(i, e) == Msg("json", MSG_TYPE_RESPONSE, i, e, 0, FALSE, "-", 0)
EventMsg(t, n) == Msg("json", MSG_TYPE_EVENT, 0, FALSE, 0, FALSE, t, n)

TextMsgs ==
    {GarbageMsg, NoTypeMsg, ErrorMsg}
    \cup {HelloMsg(v, a) : v \in Versions, a \in BOOLEAN}
    \cup {ResponseMsg(i, e) : i \in FrameIds, e \in BOOLEAN}
    \cup {EventMsg(t, 0) : t \in EventTypes}

\* What one call of _recv consumes: binary frames, then one text frame.
Binaries(k) == [j \in 1..k |-> BinaryMsg]
Bursts == {Binaries(k) \o <<m>> : k \in {0, MaxBinary}, m \in TextMsgs}

(* ---------------------------- exceptions ------------------------------ *)
Exc(kind) == [kind |-> kind]
NoExc == Exc("-")

(* ------------------------------ _recv --------------------------------- *)
\* json.loads, the "type" check, and the two frames _recv turns into errors
DecodeText(m) ==
    IF m.raw = "garbage" THEN [ok |-> FALSE, exc |-> Exc("WokwiError"), msg |-> m]
    ELSE IF m.type = "-" THEN [ok |-> FALSE, exc |-> Exc("WokwiError"), msg |-> m]
    ELSE IF m.type = MSG_TYPE_ERROR
        THEN [ok |-> FALSE, exc |-> Exc("WokwiError"), msg |-> m]
    ELSE IF m.type = MSG_TYPE_RESPONSE /\ m.error
        THEN [ok |-> FALSE, exc |-> Exc("WokwiError"), msg |-> m]
    ELSE [ok |-> TRUE, exc |-> NoExc, msg |-> m]

\* _recv without its while-loop: the first message is decoded, binary or not
TakeFirst(burst) == Head(burst)

\* the while-loop of _recv: binary messages are skipped with a warning
RECURSIVE SkipBinary(_)
SkipBinary(burst) ==
    IF Len(burst) > 1 /\ Head(burst).raw = "binary"
    THEN SkipBinary(Tail(burst))
    ELSE Head(burst)

Recv(burst) == DecodeText(SkipBinary(burst))


(* ------------------------------ futures ------------------------------- *)
\* asyncio.Future held by one request() call: st is "none" before the call,
\* then "pending", then once and for all "result", "exc" or "cancelled".
\* id, error: the "id" and "error" fields of the response frame a result is.
Fut(st, id, error, kind) == [st |-> st, id |-> id, error |-> error, kind |-> kind]
FutNone == Fut("none", 0, FALSE, "-")
FutPending == Fut("pending", 0, FALSE, "-")
FutCancelled == Fut("cancelled", 0, FALSE, "-")
FutResult(m) == Fut("result", m.id, m.error, "-")
FutExc(e) == Fut("exc", 0, FALSE, e.kind)
Done(f) == f.st \in {"result", "exc", "cancelled"}

\* FailAll with the set_exception calls left out
FailNone(futs, table, e) == futs

\* for fut in list(self._response_futures.values()):
\*     if not fut.done(): fut.set_exception(e)
FailAll(futs, table, e) ==
    [i \in Ids |-> IF i \in table /\ ~Done(futs[i]) THEN FutExc(e) ELSE futs[i]]

\* Lookup that ignores the id of the response and takes any registered key
LookupAny(table, resp_id) == IF table = {} THEN 0 ELSE CHOOSE k \in table : TRUE

\* self._response_futures.get(resp_id): the key found, 0 for None
Lookup(table, resp_id) == IF resp_id \in table THEN resp_id ELSE 0

\* ListenersFor taking the registrations in reverse order
ListenersReversed(table, type) ==
    IF type \in DOMAIN table
    THEN [k \in 1..Len(table[type]) |-> table[type][Len(table[type]) + 1 - k]]
    ELSE <<>>

\* self._event_listeners.get(event_msg["event"], [])
ListenersFor(table, type) == IF type \in DOMAIN table THEN table[type] ELSE <<>>

\* the response branch of _background_recv
Deliver(futs, table, m) ==
    LET k == Lookup(table, m.id)
    IN  IF k = 0 \/ Done(futs[k]) THEN futs ELSE [futs EXCEPT ![k] = FutResult(m)]

\* the finally block of _background_recv
Finally(futs, table, isClosed) ==
    IF isClosed THEN FailAll(futs, table, Exc("RuntimeError")) ELSE futs

\* HandshakeOk without the protocolVersion comparison
HandshakeAnyVersion(m) == m.type = MSG_TYPE_HELLO

\* hello["type"] != MSG_TYPE_HELLO or hello.get("protocolVersion") != PROTOCOL_VERSION
HandshakeOk(m) == m.type = MSG_TYPE_HELLO /\ m.ver = PROTOCOL_VERSION

(* ------------------------------- facade ------------------------------- *)
\* the futures serial_monitor / serial_monitor_cat create, in creation order
BgIds == 1..MaxMonitors

\* a facade call that came back to its caller
Call(op, outcome) == [op |-> op, outcome |-> outcome]

(* ---------------------------- queue items ----------------------------- *)
\* An event held by an EventQueue: its nanos, and the number of the pacer
\* call that had sent its sim:resume command when the receive loop handed the
\* event to the queue's listener (0: no such call)
Item(nanos, call) == [nanos |-> nanos, call |-> call]
NoItem == Item(0, 0)

(* ------------------------------- state -------------------------------- *)
VARIABLES
    next_id,            \* self._next_id
    ws,                 \* self._ws: "none" | "open" | "dropped" (by the peer) | "closed"
    closed,             \* self._closed
    response_futures,   \* keys of self._response_futures
    fut,                \* the future created by the call that allocated each id
    sets,               \* how often each future was given a result or an exception
    reqPc,              \* position of each request() call
    recvPc,             \* position of the _background_recv task
    recvEnd,            \* why the task left its loop
    recvExc,            \* exception caught by a handler, then the one the task ended with
    recvCancel,         \* close() has called cancel() on the running task
    throw_error,        \* argument of connect()
    connPc,             \* position of the connect() call
    connErr,            \* exception connect() raised
    closePc,            \* position of the close() call
    closeNextId,        \* self._next_id when the last close() was called
    event_listeners,    \* self._event_listeners
    dispList,           \* the list object _dispatch_event iterates over
    dispIdx,            \* index of the next listener to invoke
    dispType,           \* event_msg["event"] of the event being dispatched
    dispNanos,          \* event_msg["nanos"] of the event being dispatched
    dispShared,         \* dispList is still the list object the table holds
    dispSnap,           \* the listeners registered when the frame was read
    dispCalled,         \* the listeners invoked so far for this event
    dispReq,            \* id of the request() the listener being awaited waits for
    errResp,            \* ids whose error-flagged response arrived while pending
    last_pause_nanos,   \* WokwiClient.last_pause_nanos
    qSched,             \* put_nowait calls handed to loop.call_soon_threadsafe, each
                        \* with whether the pacer's wake-up is ahead of it in the
                        \* loop's ready queue
    qState,             \* per EventQueue: "none" | "open" | "closed" (close() called)
    qBuf,               \* per EventQueue: the items of its asyncio.Queue
    qGot,               \* outcome of the user's last call on a queue: "-" | "item" |
                        \* "QueueEmpty" | "flushed"
    monPc,              \* position of the task made by WokwiClient.serial_monitor
    monCb,              \* its callback: "sync" | "async" (returns an awaitable)
    monLast,            \* how its last callback ended: "-" | "returns" | "raises"
    monReq,             \* id of its serial-monitor:listen request
    monCancel,          \* cancel() was called on the task
    monGen,             \* the monitor_lines generator: "none" | "running" |
                        \* "suspended" (left at its yield) | "closed"
    monTasks,           \* the task is in WokwiClient._serial_monitor_tasks
    pacPc,              \* position of the wait_until_simulation_time call
    pacCalls,           \* how many such calls were started
    pacReq,             \* id of the request the call awaits
    pacTarget,          \* seconds * 1e9 of the call
    pacSent,            \* the commands the call has sent
    pacGot,             \* the event queue.get() gave the call
    pacPrev,            \* the calls that returned: number, target, clock at return
    sync_closed,        \* WokwiClientSync._closed
    bg_futures,         \* WokwiClientSync._bg_futures (numbers of the futures)
    bgFut,              \* per future of a runner: "none" | "pending" | "cancelled" | "done"
    bgTask,             \* per runner task on the loop: "none" | "queued" | "waiting" |
                        \* "in_callback" | "awaiting" | "ended"
    bgLast,             \* the last callback on the facade's loop: runner, how it ended
    loopState,          \* the facade's loop: "running" | "stuck" (its thread is inside
                        \* a callback that never returns) | "stopped" | "closed"
    syncPc,             \* position of the thread that calls the facade
    discFut,            \* the submitted WokwiClient.disconnect(): "none" | "queued" |
                        \* "hanging" | "done"
    stopReq,            \* loop.stop was handed to call_soon_threadsafe
    lastCall,           \* the last facade call that came back, and how
    otherCall           \* a facade call made by a second thread: "-" (none yet),
                        \* "submitted" (in future.result()), or how it came back

reqVars == <<next_id, response_futures, fut, sets, reqPc>>
recvVars == <<recvPc, recvEnd, recvExc, recvCancel>>
connVars == <<throw_error, connPc, connErr>>
closeVars == <<closePc, closeNextId>>
dispVars == <<dispList, dispIdx, dispType, dispNanos, dispShared, dispSnap, dispCalled,
             dispReq>>
lVars == <<last_pause_nanos, qSched>>
qVars == <<qState, qBuf, qGot>>
mVars == <<monPc, monCb, monLast, monReq, monCancel, monGen, monTasks>>
pVars == <<pacPc, pacCalls, pacReq, pacTarget, pacSent, pacGot, pacPrev>>
fVars == <<sync_closed, bg_futures, bgFut, bgTask, bgLast, loopState, syncPc, discFut,
           stopReq, lastCall, otherCall>>
yVars == <<qVars, mVars, pVars, fVars>>
xVars == <<lVars, yVars>>
vars == <<next_id, ws, closed, response_futures, fut, sets, reqPc,
          recvPc, recvEnd, recvExc, recvCancel, throw_error, connPc, connErr,
          closePc, closeNextId, event_listeners, dispVars, errResp, lVars,
          yVars>>

\* Transport.__init__, then WokwiClient.__init__ registers its pause listener
Init ==
    /\ next_id = 1
    /\ ws = "none"
    /\ closed = FALSE
    /\ response_futures = {}
    /\ fut = [i \in Ids |-> FutNone]
    /\ sets = [i \in Ids |-> 0]
    /\ reqPc = [i \in Ids |-> "none"]
    /\ recvPc = "none"
    /\ recvEnd = "none"
    /\ recvExc = NoExc
    /\ recvCancel = FALSE
    /\ throw_error = TRUE
    /\ connPc = "idle"
    /\ connErr = "-"
    /\ closePc = "idle"
    /\ closeNextId = 0
    /\ event_listeners = ("sim:pause" :> <<"_on_pause">>)
    /\ dispList = <<>>
    /\ dispIdx = 0
    /\ dispType = "-"
    /\ dispNanos = 0
    /\ dispShared = FALSE
    /\ dispSnap = <<>>
    /\ dispCalled = <<>>
    /\ dispReq = 0
    /\ errResp = {}
    /\ last_pause_nanos = 0
    /\ qSched = <<>>
    /\ qState = [q \in Queues |-> "none"]
    /\ qBuf = [q \in Queues |-> <<>>]
    /\ qGot = "-"
    /\ monPc = "none"
    /\ monCb = "-"
    /\ monLast = "-"
    /\ monReq = 0
    /\ monCancel = FALSE
    /\ monGen = "none"
    /\ monTasks = FALSE
    /\ pacPc = "idle"
    /\ pacCalls = 0
    /\ pacReq = 0
    /\ pacTarget = 0
    /\ pacSent = <<>>
    /\ pacGot = NoItem
    /\ pacPrev = <<>>
    /\ sync_closed = FALSE
    /\ bg_futures = {}
    /\ bgFut = [k \in BgIds |-> "none"]
    /\ bgTask = [k \in BgIds |-> "none"]
    /\ bgLast = <<0, "-">>
    /\ loopState = "running"
    /\ syncPc = "idle"
    /\ discFut = "none"
    /\ stopReq = FALSE
    /\ lastCall = Call("-", "-")
    /\ otherCall = "-"

\* set_result / set_exception calls made by a step that turns futs into new
Counted(futs, new) == [i \in Ids |-> sets[i] + IF futs[i] # new[i] THEN 1 ELSE 0]

(* ------------------------------ connect ------------------------------- *)
\* connect(throw_error) up to: await websockets.connect(...)
ConnectStart(te) ==
    /\ connPc = "idle"
    /\ connPc' = "open"
    /\ throw_error' = te
    /\ UNCHANGED <<ws, closed, reqVars, recvVars, connErr, closeVars,
                   event_listeners, xVars, dispVars, errResp>>

\* connect() on a Transport whose earlier connect() call is over: nothing in
\* connect() looks at the connection, the task or the flags that are there
ConnectAgain(te) ==
    /\ connPc \in {"done", "failed"}
    /\ connPc' = "open"
    /\ connErr' = "-"
    /\ throw_error' = te
    /\ UNCHANGED <<ws, closed, reqVars, recvVars, closeVars,
                   event_listeners, xVars, dispVars, errResp>>

\* websockets.connect returned: self._ws is set, then: await self._recv()
ConnectOpened ==
    /\ connPc = "open"
    /\ ws' = "open"
    /\ connPc' = "hello"
    /\ UNCHANGED <<closed, reqVars, recvVars, throw_error, connErr,
                   closeVars, event_listeners, xVars, dispVars, errResp>>

\* websockets.connect raised: self._ws stays None
ConnectOpenFail ==
    /\ connPc = "open"
    /\ connPc' = "failed"
    /\ connErr' = "OSError"
    /\ UNCHANGED <<ws, closed, reqVars, recvVars, throw_error,
                   closeVars, event_listeners, xVars, dispVars, errResp>>

\* the first text frame arrives: handshake check, _closed = False, create_task:
\* self._recv_task is a new task from here on
ConnectHello(burst) ==
    /\ connPc = "hello"
    /\ ws = "open"
    /\ LET r == Recv(burst)
       IN  IF ~r.ok
           THEN /\ connPc' = "failed"
                /\ connErr' = r.exc.kind
                /\ UNCHANGED <<closed, recvVars>>
           ELSE IF ~HandshakeOk(r.msg)
           THEN /\ connPc' = "failed"
                /\ connErr' = "ProtocolError"
                /\ UNCHANGED <<closed, recvVars>>
           ELSE /\ closed' = FALSE
                /\ recvPc' = "created"
                /\ recvEnd' = "none"
                /\ recvExc' = NoExc
                /\ recvCancel' = FALSE
                \* return {"version": hello_msg["appVersion"]}
                /\ IF r.msg.app
                   THEN connPc' = "done" /\ connErr' = "-"
                   ELSE connPc' = "failed" /\ connErr' = "KeyError"
    /\ UNCHANGED <<ws, reqVars, throw_error,
                   closeVars, event_listeners, xVars, dispVars, errResp>>

\* the connection is gone before the handshake: self._ws.recv() raises
ConnectHelloClosed ==
    /\ connPc = "hello"
    /\ ws \in {"dropped", "closed"}
    /\ connPc' = "failed"
    /\ connErr' = "ConnectionClosed"
    /\ UNCHANGED <<ws, closed, reqVars, recvVars, throw_error,
                   closeVars, event_listeners, xVars, dispVars, errResp>>

\* the peer closes the connection
PeerDrop ==
    /\ ws = "open"
    /\ ws' = "dropped"
    /\ UNCHANGED <<closed, reqVars, recvVars, connVars, closeVars,
                   event_listeners, xVars, dispVars, errResp>>

(* ------------------------------ request ------------------------------- *)
Finished(i) ==
    reqPc[i] \in {"returned", "server_error", "raised", "send_failed",
                  "send_cancelled", "cancelled"}

\* request(): self._ws is None, raise WokwiError("Not connected")
RequestNotConnected ==
    /\ ws = "none"
    /\ UNCHANGED vars

\* str(n): the decimal digits of n
RECURSIVE Decimal(_)
Decimal(n) == IF n < 10 THEN <<n>> ELSE Append(Decimal(n \div 10), n % 10)

\* an id that is handed out again
SameId(n) == n

\* self._next_id += 1
NextId(n) == n + 1

\* msg_id = str(self._next_id); self._next_id += 1; the future is created
\* and stored under msg_id; then: await self._ws.send(...)
Register ==
    /\ next_id' = NextId(next_id)
    /\ fut' = [fut EXCEPT ![next_id] = FutPending]
    /\ response_futures' = response_futures \cup {next_id}
    /\ reqPc' = [reqPc EXCEPT ![next_id] = "send"]
    /\ UNCHANGED sets

\* request() up to: await self._ws.send(...)
RequestStart ==
    /\ ws # "none"
    /\ next_id <= MaxReq
    /\ Register
    /\ UNCHANGED <<ws, closed, recvVars, connVars, closeVars,
                   event_listeners, xVars, dispVars, errResp>>

\* send returned; the call enters the try block and awaits its future
RequestSent(i) ==
    /\ reqPc[i] = "send"
    /\ ws = "open"
    /\ reqPc' = [reqPc EXCEPT ![i] = "wait"]
    /\ UNCHANGED <<next_id, ws, closed, response_futures, fut, sets,
                   recvVars, connVars, closeVars, event_listeners, xVars, dispVars, errResp>>

\* send raised ConnectionClosed: the call is not yet inside try/finally
RequestSendFailed(i) ==
    /\ reqPc[i] = "send"
    /\ ws \in {"dropped", "closed"}
    /\ reqPc' = [reqPc EXCEPT ![i] = "send_failed"]
    /\ UNCHANGED <<next_id, ws, closed, response_futures, fut, sets,
                   recvVars, connVars, closeVars, event_listeners, xVars, dispVars, errResp>>

\* the caller's task is cancelled while suspended in send: CancelledError is
\* raised at the await, outside try/finally
RequestCancelSend(i) ==
    /\ reqPc[i] = "send"
    /\ reqPc' = [reqPc EXCEPT ![i] = "send_cancelled"]
    /\ UNCHANGED <<next_id, ws, closed, response_futures, fut, sets,
                   recvVars, connVars, closeVars, event_listeners, xVars, dispVars, errResp>>

\* task.cancel() while the call awaits its future: the awaited future is
\* cancelled at once, the call itself resumes later
RequestCancel(i) ==
    /\ reqPc[i] = "wait"
    /\ reqPc' = [reqPc EXCEPT ![i] = "cancelling"]
    /\ fut' = [fut EXCEPT ![i] = IF Done(@) THEN @ ELSE FutCancelled]
    /\ UNCHANGED <<next_id, ws, closed, response_futures, sets,
                   recvVars, connVars, closeVars, event_listeners, xVars, dispVars, errResp>>

\* the cancelled call resumes with CancelledError: finally pops its entry
RequestCancelled(i) ==
    /\ reqPc[i] = "cancelling"
    /\ reqPc' = [reqPc EXCEPT ![i] = "cancelled"]
    /\ response_futures' = response_futures \ {i}
    /\ UNCHANGED <<next_id, ws, closed, fut, sets,
                   recvVars, connVars, closeVars, event_listeners, xVars, dispVars, errResp>>

\* what "await future" and the two lines after it make of a done future
Outcome(f) ==
    IF f.st = "exc" THEN "raised"
    ELSE IF f.error THEN "server_error"      \* raise ServerError(result.message)
    ELSE "returned"

\* "await future" returns or raises; finally pops the entry
Resumed(i) ==
    /\ reqPc' = [reqPc EXCEPT ![i] = Outcome(fut[i])]
    /\ response_futures' = response_futures \ {i}
    /\ UNCHANGED <<next_id, fut, sets>>

\* the future is done: the call resumes, returns or raises, finally pops
RequestResume(i) ==
    /\ reqPc[i] = "wait"
    /\ fut[i].st \in {"result", "exc"}
    /\ Resumed(i)
    /\ UNCHANGED <<ws, closed,
                   recvVars, connVars, closeVars, event_listeners, xVars, dispVars, errResp>>

(* --------------------------- receive loop ----------------------------- *)
NoDispatch ==
    /\ dispList' = <<>>
    /\ dispIdx' = 0
    /\ dispType' = "-"
    /\ dispNanos' = 0
    /\ dispShared' = FALSE
    /\ dispSnap' = <<>>
    /\ dispCalled' = <<>>
    /\ dispReq' = 0

\* the task leaves the try statement: finally, then the task is done
EndTask(futs, cause, e, isClosed) ==
    /\ recvPc' = "ended"
    /\ recvEnd' = cause
    /\ recvExc' = e
    /\ fut' = Finally(futs, response_futures, isClosed)
    /\ sets' = Counted(fut, fut')
    /\ NoDispatch

\* while not self._closed and self._ws is not None: msg = await self._recv()
NextIteration(futs) ==
    IF ~closed /\ ws # "none"
    THEN /\ recvPc' = "recv"
         /\ fut' = futs
         /\ sets' = Counted(fut, futs)
         /\ NoDispatch
         /\ UNCHANGED <<recvEnd, recvExc>>
    ELSE EndTask(futs, "normal", NoExc, closed)

\* except Exception as e: warn; if throw_error: mark closed, fail the futures,
\* await self._ws.close(), raise
HandleError(e) ==
    IF throw_error
    THEN /\ closed' = TRUE
         /\ fut' = FailAll(fut, response_futures, e)
         /\ sets' = Counted(fut, fut')
         /\ recvPc' = "h_close"
         /\ recvEnd' = "error"
         /\ recvExc' = e
         /\ NoDispatch
    ELSE /\ EndTask(fut, "error", NoExc, closed)
         /\ UNCHANGED closed

\* first step of the task created by connect()
RecvStart ==
    /\ recvPc = "created"
    /\ ~recvCancel
    /\ NextIteration(fut)
    /\ UNCHANGED <<next_id, ws, closed, response_futures, reqPc, recvCancel,
                   connVars, closeVars, event_listeners, xVars, errResp>>

\* one text frame arrives at the loop
RecvFrame(burst) ==
    /\ recvPc = "recv"
    /\ ~recvCancel
    /\ ws = "open"
    /\ LET r == Recv(burst)
           m == r.msg
       IN  /\ errResp' = IF m.type = MSG_TYPE_RESPONSE /\ m.error
                            /\ m.id \in response_futures /\ ~Done(fut[m.id])
                         THEN errResp \cup {m.id} ELSE errResp
           /\ IF ~r.ok
              THEN HandleError(r.exc)
              ELSE IF m.type = MSG_TYPE_EVENT
              THEN IF ListenersFor(event_listeners, m.event) # <<>>
                   THEN /\ recvPc' = "dispatch"
                        /\ dispList' = ListenersFor(event_listeners, m.event)
                        /\ dispIdx' = 1
                        /\ dispType' = m.event
                        /\ dispNanos' = m.nanos
                        /\ dispShared' = TRUE
                        /\ dispSnap' = event_listeners[m.event]
                        /\ dispCalled' = <<>>
                        /\ dispReq' = 0
                        /\ UNCHANGED <<closed, fut, sets, recvEnd, recvExc>>
                   ELSE NextIteration(fut) /\ UNCHANGED closed
              ELSE IF m.type = MSG_TYPE_RESPONSE
              THEN NextIteration(Deliver(fut, response_futures, m)) /\ UNCHANGED closed
              ELSE NextIteration(fut) /\ UNCHANGED closed
    /\ UNCHANGED <<next_id, ws, response_futures, reqPc, recvCancel,
                   connVars, closeVars, event_listeners, xVars>>

\* the pacer call, if any, that has handed its sim:resume command to send()
ResumeSentBy ==
    IF pacPc \in {"resume", "get"} THEN pacCalls ELSE 0

\* the task inside wait_until_simulation_time has a wake-up in the loop's
\* ready queue: the future it awaits is done, or the queue it waits on has
\* an item
PacerWoken ==
    \/ /\ pacPc \in {"pause", "resume"}
       /\ reqPc[pacReq] = "wait"
       /\ Done(fut[pacReq])
    \/ /\ pacPc = "get"
       /\ qBuf["pause_queue"] # <<>>

\* result = listener(event_msg) for the listeners this module knows:
\* WokwiClient._on_pause stores the clock, the closure of an EventQueue hands
\* put_nowait(event) to call_soon_threadsafe, a user callback has no effect here
Invoke(listener) ==
    IF listener = "_on_pause"
    THEN last_pause_nanos' = dispNanos /\ UNCHANGED qSched
    ELSE IF listener \in Queues
    THEN /\ qSched' = Append(qSched, [queue |-> listener,
                                      item |-> Item(dispNanos, ResumeSentBy),
                                      ahead |-> PacerWoken])
         /\ UNCHANGED last_pause_nanos
    ELSE UNCHANGED lVars

\* one listener is called (and awaited when it returns an awaitable)
DispatchListener(outcome) ==
    /\ recvPc = "dispatch"
    /\ ~recvCancel
    /\ IF outcome = "raise"
       THEN HandleError(Exc("ListenerError")) /\ UNCHANGED lVars
       ELSE /\ Invoke(dispList[dispIdx])
            /\ IF dispIdx < Len(dispList)
               THEN /\ dispIdx' = dispIdx + 1
                    /\ dispCalled' = Append(dispCalled, dispList[dispIdx])
                    /\ UNCHANGED <<closed, fut, sets, recvPc, recvEnd, recvExc,
                                   dispList, dispType, dispNanos, dispShared,
                                   dispSnap, dispReq>>
               ELSE NextIteration(fut) /\ UNCHANGED closed
    /\ UNCHANGED <<next_id, ws, response_futures, reqPc, recvCancel,
                   connVars, closeVars, event_listeners, errResp, yVars>>

\* except websockets.ConnectionClosed as e: mark closed, fail the futures,
\* then: await self._ws.close()
RecvConnClosed ==
    /\ recvPc = "recv"
    /\ ~recvCancel
    /\ ws \in {"dropped", "closed"}
    /\ closed' = TRUE
    /\ fut' = FailAll(fut, response_futures, Exc("ConnectionClosed"))
    /\ sets' = Counted(fut, fut')
    /\ recvPc' = "h_close"
    /\ recvEnd' = "conn_closed"
    /\ recvExc' = Exc("ConnectionClosed")
    /\ UNCHANGED <<next_id, ws, response_futures, reqPc, recvCancel,
                   connVars, closeVars, event_listeners, xVars, dispVars, errResp>>

\* self._ws.close() returned inside a handler: raise if throw_error; finally
RecvHandlerClose ==
    /\ recvPc = "h_close"
    /\ ~recvCancel
    /\ ws' = "closed"
    /\ EndTask(fut, recvEnd, IF throw_error THEN recvExc ELSE NoExc, closed)
    /\ UNCHANGED <<next_id, closed, response_futures, reqPc, recvCancel,
                   connVars, closeVars, event_listeners, xVars, errResp>>

\* the task cancelled by close() runs again: CancelledError is thrown in at
\* its await (except CancelledError: raise; finally), or, when the task had
\* not started yet, the coroutine ends without entering its try statement
RecvCancelled ==
    /\ recvCancel
    /\ recvPc \in {"created", "recv", "dispatch", "h_close"}
    /\ IF recvPc = "created"
       THEN /\ recvPc' = "ended"
            /\ recvEnd' = "cancelled"
            /\ recvExc' = Exc("CancelledError")
            /\ UNCHANGED <<fut, sets, dispVars>>
       ELSE EndTask(fut, "cancelled", Exc("CancelledError"), closed)
    /\ UNCHANGED <<next_id, ws, closed, response_futures, reqPc, recvCancel,
                   connVars, closeVars, event_listeners, xVars, errResp>>

\* a listener that starts request() with create_task and returns: the loop is
\* not suspended in it
ListenerRequestDetached ==
    /\ recvPc = "dispatch"
    /\ ~recvCancel
    /\ dispList[dispIdx] \in Callbacks
    /\ next_id <= MaxReq
    /\ Register
    /\ dispReq' = next_id
    /\ UNCHANGED <<ws, closed, recvVars, connVars, closeVars, event_listeners,
                   xVars, errResp, dispList, dispIdx, dispType, dispNanos,
                   dispShared, dispSnap, dispCalled>>

\* result = listener(event_msg) for a coroutine function of the user that
\* awaits self.request(...): request() runs up to its send inside the loop's
\* task, and "await result" keeps the loop's task in the listener
ListenerRequest ==
    /\ recvPc = "dispatch"
    /\ ~recvCancel
    /\ dispList[dispIdx] \in Callbacks
    /\ next_id <= MaxReq
    /\ Register
    /\ dispReq' = next_id
    /\ recvPc' = "in_listener"
    /\ UNCHANGED <<ws, closed, recvEnd, recvExc, recvCancel, connVars, closeVars,
                   event_listeners, xVars, errResp, dispList, dispIdx, dispType,
                   dispNanos, dispShared, dispSnap, dispCalled>>

\* close() cancelled the loop's task while it is inside the listener: the
\* CancelledError is raised at the await of request() (at the send: the entry
\* stays in the table; at the future: the future is cancelled and finally pops
\* it), leaves the listener and _dispatch_event, and is re-raised by the loop
ListenerCancelled ==
    /\ recvCancel
    /\ recvPc = "in_listener"
    /\ LET waiting == reqPc[dispReq] = "wait"
       IN  /\ reqPc' = [reqPc EXCEPT ![dispReq] =
                            IF waiting THEN "cancelled" ELSE "send_cancelled"]
           /\ response_futures' = IF waiting THEN response_futures \ {dispReq}
                                   ELSE response_futures
           /\ EndTask(IF waiting THEN [fut EXCEPT ![dispReq] = FutCancelled] ELSE fut,
                      "cancelled", Exc("CancelledError"), closed)
    /\ UNCHANGED <<next_id, ws, closed, recvCancel, connVars, closeVars,
                   event_listeners, xVars, errResp>>

(* ------------------------------- close -------------------------------- *)
\* if self._ws: await self._ws.close()
CloseWsPart == IF ws = "none" THEN "done" ELSE "ws_close"

\* close() up to its first await.  cancel() on a task that is done changes
\* nothing and awaiting it returns at once: with the exception the task ended
\* with, of which only CancelledError is suppressed.
CloseStart ==
    /\ closePc \in {"idle", "done", "raised"}
    /\ closeNextId' = next_id
    /\ closed' = TRUE
    /\ IF recvPc = "none"
       THEN closePc' = CloseWsPart /\ UNCHANGED recvCancel
       ELSE IF recvPc = "ended"
       THEN /\ closePc' = IF recvExc.kind \in {"-", "CancelledError"}
                          THEN CloseWsPart ELSE "raised"
            /\ UNCHANGED recvCancel
       ELSE closePc' = "await_task" /\ recvCancel' = TRUE
    /\ UNCHANGED <<ws, reqVars, recvPc, recvEnd, recvExc, connVars,
                   event_listeners, xVars, dispVars, errResp>>

\* the cancelled task has ended: CancelledError is suppressed
CloseJoined ==
    /\ closePc = "await_task"
    /\ recvPc = "ended"
    /\ closePc' = CloseWsPart
    /\ UNCHANGED <<ws, closed, reqVars, recvVars, connVars, closeNextId,
                   event_listeners, xVars, dispVars, errResp>>

\* self._ws.close() returned: close() returns
CloseWsClosed ==
    /\ closePc = "ws_close"
    /\ ws' = "closed"
    /\ closePc' = "done"
    /\ UNCHANGED <<closed, reqVars, recvVars, connVars, closeNextId,
                   event_listeners, xVars, dispVars, errResp>>

(* ----------------------------- listeners ------------------------------ *)
\* DropEmpty that leaves the emptied entry in the table
KeepEmpty(table, type) == table

\* if not self._event_listeners[event_type]: del self._event_listeners[event_type]
DropEmpty(table, type) ==
    IF table[type] = <<>>
    THEN [u \in DOMAIN table \ {type} |-> table[u]]
    ELSE table

\* [registered for registered in list if registered != listener]
RECURSIVE Without(_, _)
Without(list, listener) ==
    IF list = <<>> THEN <<>>
    ELSE IF Head(list) = listener THEN Without(Tail(list), listener)
    ELSE <<Head(list)>> \o Without(Tail(list), listener)

\* add_event_listener: append to the list object of the type, created if
\* missing; a dispatch iterating over that list object sees the new element
AddListener(type, listener) ==
    /\ event_listeners' =
           IF type \in DOMAIN event_listeners
           THEN [event_listeners EXCEPT ![type] = Append(@, listener)]
           ELSE (type :> <<listener>>) @@ event_listeners
    /\ dispList' = IF dispShared /\ dispType = type
                   THEN Append(dispList, listener) ELSE dispList
    /\ UNCHANGED <<dispIdx, dispType, dispNanos, dispShared, dispSnap, dispCalled,
                   dispReq>>

\* a user of the Transport calls add_event_listener
AddEventListener(type, listener) ==
    /\ Len(ListenersFor(event_listeners, type)) < MaxListeners
    /\ AddListener(type, listener)
    /\ UNCHANGED <<ws, closed, reqVars, recvVars, connVars, closeVars,
                   errResp, xVars>>

\* remove_event_listener: the list of the type is replaced by a new list
\* object, so a dispatch in progress keeps iterating over the old one
RemoveListener(type, listener) ==
    /\ IF type \in DOMAIN event_listeners
       THEN /\ event_listeners' =
                   DropEmpty([event_listeners EXCEPT ![type] = Without(@, listener)],
                             type)
            /\ dispShared' = IF dispType = type THEN FALSE ELSE dispShared
       ELSE UNCHANGED <<event_listeners, dispShared>>
    /\ UNCHANGED <<dispList, dispIdx, dispType, dispNanos, dispSnap, dispCalled,
                   dispReq>>

\* a user of the Transport calls remove_event_listener
RemoveEventListener(type, listener) ==
    /\ RemoveListener(type, listener)
    /\ UNCHANGED <<ws, closed, reqVars, recvVars, connVars, closeVars,
                   errResp, xVars>>

(* ----------------------------- EventQueue ----------------------------- *)
\* what is left alone by a step that only works on the listener table and on
\* EventQueue objects
TransportIdle ==
    UNCHANGED <<ws, closed, reqVars, recvVars, connVars, closeVars, errResp, pVars, fVars>>

\* EventQueue(transport, event_type): a new asyncio.Queue, and the closure
\* registered as listener
QueueInit(q) ==
    /\ qState[q] = "none"
    /\ qState' = [qState EXCEPT ![q] = "open"]
    /\ AddListener(QueueType(q), q)
    /\ TransportIdle
    /\ UNCHANGED <<lVars, qBuf, qGot, mVars>>

\* close(), also called by __exit__: the listener is removed, nothing else
QueueClose(q) ==
    /\ qState[q] \in {"open", "closed"}
    /\ qState' = [qState EXCEPT ![q] = "closed"]
    /\ RemoveListener(QueueType(q), q)
    /\ TransportIdle
    /\ UNCHANGED <<lVars, qBuf, qGot, mVars>>

\* a buffer that hands out the newest item first
Push(buf, item) == <<item>> \o buf

\* self._queue is an asyncio.Queue: put_nowait adds behind what is there
Enqueue(buf, item) == Append(buf, item)

\* the loop runs the oldest callback the listeners handed to
\* call_soon_threadsafe: self._queue.put_nowait(event)
QueuePut ==
    /\ qSched # <<>>
    /\ qSched' = Tail(qSched)
    /\ qBuf' = [qBuf EXCEPT ![Head(qSched).queue] = Enqueue(@, Head(qSched).item)]
    /\ TransportIdle
    /\ UNCHANGED <<event_listeners, dispVars, last_pause_nanos, qState, qGot,
                   mVars>>

\* get_nowait(): the oldest item, or QueueEmpty
QueueGetNowait(q) ==
    /\ qState[q] \in {"open", "closed"}
    /\ IF qBuf[q] = <<>>
       THEN qGot' = "QueueEmpty" /\ UNCHANGED qBuf
       ELSE qGot' = "item" /\ qBuf' = [qBuf EXCEPT ![q] = Tail(@)]
    /\ TransportIdle
    /\ UNCHANGED <<event_listeners, dispVars, lVars, qState, mVars>>

\* await get(): returns the oldest item; the caller stays suspended while
\* the buffer is empty
QueueGet(q) ==
    /\ qState[q] \in {"open", "closed"}
    /\ qBuf[q] # <<>>
    /\ qGot' = "item"
    /\ qBuf' = [qBuf EXCEPT ![q] = Tail(@)]
    /\ TransportIdle
    /\ UNCHANGED <<event_listeners, dispVars, lVars, qState, mVars>>

\* a flush that unsubscribes the queue as well
FlushAndClose(q) ==
    /\ qState[q] \in {"open", "closed"}
    /\ qBuf' = [qBuf EXCEPT ![q] = <<>>]
    /\ qGot' = "flushed"
    /\ qState' = [qState EXCEPT ![q] = "closed"]
    /\ RemoveListener(QueueType(q), q)
    /\ TransportIdle
    /\ UNCHANGED <<lVars, mVars>>

\* flush(): while not self._queue.empty(): self._queue.get_nowait()
QueueFlush(q) ==
    /\ qState[q] \in {"open", "closed"}
    /\ qBuf' = [qBuf EXCEPT ![q] = <<>>]
    /\ qGot' = "flushed"
    /\ TransportIdle
    /\ UNCHANGED <<event_listeners, dispVars, lVars, qState, mVars>>

\* the server sends an event; the loop reads it
ServerEvent(type, nanos) ==
    /\ \A q \in Queues : Len(qSched) + Len(qBuf[q]) < MaxQueue
    /\ RecvFrame(<<EventMsg(type, nanos)>>)

(* --------------------------- serial monitor --------------------------- *)
\* The callback of a serial monitor is called inside try: ... except
\* Exception: pass, in WokwiClient.serial_monitor and in
\* WokwiClientSync.serial_monitor alike: the runner goes on after a callback
\* that raised (CallbackHandled).  Without the except clause it would go on
\* only after one that returned (CallbackMustReturn).
CallbackMustReturn(outcome) == outcome = "returns"

CallbackHandled(outcome) == outcome \in {"returns", "raises"}

\* the task has left _runner: finally discards it from the registry
MonitorEnds(gen) ==
    /\ monPc' = "ended"
    /\ monGen' = gen
    /\ monTasks' = FALSE
    /\ UNCHANGED <<monCb, monLast, monReq, monCancel>>

\* the with statement of monitor_lines is left: EventQueue.__exit__ calls close()
MonitorQueueExit ==
    /\ qState' = [qState EXCEPT !["monitor_queue"] = "closed"]
    /\ RemoveListener(QueueType("monitor_queue"), "monitor_queue")

\* WokwiClient.serial_monitor(callback): create_task(_runner()), registry add
SerialMonitor(kind) ==
    /\ monPc = "none"
    /\ monPc' = "created"
    /\ monCb' = kind
    /\ monLast' = "-"
    /\ monTasks' = TRUE
    /\ TransportIdle
    /\ UNCHANGED <<event_listeners, dispVars, lVars, qVars, monReq, monCancel, monGen>>

\* first step of the task: _runner enters its try, monitor_lines starts and
\* calls transport.request("serial-monitor:listen", {})
MonitorStart ==
    /\ monPc = "created"
    /\ ~monCancel
    /\ IF ws = "none"
       THEN MonitorEnds("closed") /\ UNCHANGED reqVars
       ELSE /\ next_id <= MaxReq
            /\ Register
            /\ monReq' = next_id
            /\ monPc' = "listen"
            /\ monGen' = "running"
            /\ UNCHANGED <<monCb, monLast, monCancel, monTasks>>
    /\ UNCHANGED <<ws, closed, recvVars, connVars, closeVars, errResp,
                   event_listeners, dispVars, lVars, qVars, pVars, fVars>>

\* the send of the listen request raises: the generator ends before its with
MonitorSendFailed ==
    /\ monPc = "listen"
    /\ ~monCancel
    /\ reqPc[monReq] = "send"
    /\ ws \in {"dropped", "closed"}
    /\ reqPc' = [reqPc EXCEPT ![monReq] = "send_failed"]
    /\ MonitorEnds("closed")
    /\ UNCHANGED <<next_id, response_futures, fut, sets, ws, closed, recvVars,
                   connVars, closeVars, errResp, event_listeners, dispVars,
                   lVars, qVars, pVars, fVars>>

\* the listen request resumes.  With its response: with EventQueue(...) as
\* queue, then the first await queue.get(), which suspends.  With an
\* exception: the generator and the task end.
MonitorListenDone ==
    /\ monPc = "listen"
    /\ ~monCancel
    /\ reqPc[monReq] = "wait"
    /\ fut[monReq].st \in {"result", "exc"}
    /\ Resumed(monReq)
    /\ IF Outcome(fut[monReq]) = "returned"
       THEN /\ qState' = [qState EXCEPT !["monitor_queue"] = "open"]
            /\ AddListener(QueueType("monitor_queue"), "monitor_queue")
            /\ monPc' = "get"
            /\ UNCHANGED <<monCb, monLast, monReq, monCancel, monGen, monTasks>>
       ELSE /\ MonitorEnds("closed")
            /\ UNCHANGED <<qState, event_listeners, dispVars>>
    /\ UNCHANGED <<ws, closed, recvVars, connVars, closeVars, errResp,
                   lVars, qBuf, qGot, pVars, fVars>>

\* _runner after a callback that returned or raised: the exception is
\* swallowed and the next queue.get() follows.  An exception that leaves
\* _runner ends the task and leaves the generator at its yield.
MonitorAfterCallback(outcome) ==
    /\ monLast' = outcome
    /\ IF CallbackHandled(outcome)
       THEN monPc' = "get" /\ UNCHANGED <<monGen, monTasks>>
       ELSE monPc' = "ended" /\ monGen' = "suspended" /\ monTasks' = FALSE

\* queue.get() returns the oldest event.  bytes(event_msg["payload"]["bytes"])
\* raises on a payload without bytes: the with is left by the exception.
\* Otherwise the line is yielded to _runner, which calls the callback: a
\* synchronous one returns or raises, an awaitable result is awaited.
MonitorLine(payload, outcome) ==
    /\ monPc = "get"
    /\ ~monCancel
    /\ qBuf["monitor_queue"] # <<>>
    /\ qBuf' = [qBuf EXCEPT !["monitor_queue"] = Tail(@)]
    /\ IF payload = "bad"
       THEN MonitorQueueExit /\ MonitorEnds("closed")
       ELSE /\ IF monCb = "async"
               THEN monPc' = "callback" /\ UNCHANGED <<monLast, monGen, monTasks>>
               ELSE MonitorAfterCallback(outcome)
            /\ UNCHANGED <<qState, event_listeners, dispVars, monCb, monReq,
                           monCancel>>
    /\ TransportIdle
    /\ UNCHANGED <<lVars, qGot>>

\* the awaited callback finishes, normally or with an exception
MonitorCallbackDone(outcome) ==
    /\ monPc = "callback"
    /\ ~monCancel
    /\ MonitorAfterCallback(outcome)
    /\ TransportIdle
    /\ UNCHANGED <<event_listeners, dispVars, lVars, qVars, monCb, monReq,
                   monCancel>>

\* WokwiClient.stop_serial_monitors(): cancel() on every task of the
\* registry, then clear it.  cancel() cancels at once the future the task
\* awaits; the task itself runs again later.
StopSerialMonitors ==
    /\ monTasks
    /\ monTasks' = FALSE
    /\ monCancel' = TRUE
    /\ IF monPc = "listen" /\ reqPc[monReq] = "wait"
       THEN /\ reqPc' = [reqPc EXCEPT ![monReq] = "cancelling"]
            /\ fut' = [fut EXCEPT ![monReq] = IF Done(@) THEN @ ELSE FutCancelled]
       ELSE UNCHANGED <<reqPc, fut>>
    /\ UNCHANGED <<next_id, response_futures, sets, ws, closed, recvVars,
                   connVars, closeVars, errResp, event_listeners, dispVars,
                   lVars, qVars, monPc, monCb, monLast, monReq, monGen, pVars, fVars>>

\* WokwiClient.disconnect() up to its first await: stop_serial_monitors(),
\* then Transport.close() as in CloseStart
ClientDisconnect ==
    /\ closePc = "idle"
    /\ monTasks' = FALSE
    /\ monCancel' = (monCancel \/ monTasks)
    /\ IF monTasks /\ monPc = "listen" /\ reqPc[monReq] = "wait"
       THEN /\ reqPc' = [reqPc EXCEPT ![monReq] = "cancelling"]
            /\ fut' = [fut EXCEPT ![monReq] = IF Done(@) THEN @ ELSE FutCancelled]
       ELSE UNCHANGED <<reqPc, fut>>
    /\ closeNextId' = next_id
    /\ closed' = TRUE
    /\ IF recvPc = "none"
       THEN closePc' = CloseWsPart /\ UNCHANGED recvCancel
       ELSE IF recvPc = "ended"
       THEN /\ closePc' = IF recvExc.kind \in {"-", "CancelledError"}
                          THEN CloseWsPart ELSE "raised"
            /\ UNCHANGED recvCancel
       ELSE closePc' = "await_task" /\ recvCancel' = TRUE
    /\ UNCHANGED <<next_id, response_futures, sets, ws, recvPc, recvEnd, recvExc,
                   connVars, errResp, event_listeners, dispVars, lVars, qVars,
                   monPc, monCb, monLast, monReq, monGen, pVars, fVars>>

\* The wake-up of a cancelled monitor task is queued on the loop before
\* anything that resumes disconnect(): disconnect() goes on after an await
\* that suspended it only once the task has run again.
MonitorWoken == ~(monCancel /\ monPc \in {"created", "listen", "get", "callback"})

\* the cancelled task runs again: CancelledError is raised at its await.
\* Not started yet: the coroutine never runs.  In request(): as for any
\* caller.  In queue.get(): the with of monitor_lines is left.  In the await
\* of the callback: _runner is left while the generator stays at its yield.
MonitorCancelled ==
    /\ monCancel
    /\ monPc \in {"created", "listen", "get", "callback"}
    /\ IF monPc = "created"
       THEN /\ monPc' = "ended"
            /\ UNCHANGED <<reqVars, qState, event_listeners, dispVars, monCb, monLast,
                           monReq, monCancel, monGen, monTasks>>
       ELSE IF monPc = "listen"
       THEN /\ reqPc' = [reqPc EXCEPT ![monReq] =
                            IF @ = "send" THEN "send_cancelled" ELSE "cancelled"]
            /\ response_futures' = IF reqPc[monReq] = "send"
                                   THEN response_futures
                                   ELSE response_futures \ {monReq}
            /\ MonitorEnds("closed")
            /\ UNCHANGED <<next_id, fut, sets, qState, event_listeners, dispVars>>
       ELSE IF monPc = "get"
       THEN /\ MonitorQueueExit
            /\ MonitorEnds("closed")
            /\ UNCHANGED reqVars
       ELSE /\ MonitorEnds("suspended")
            /\ UNCHANGED <<reqVars, qState, event_listeners, dispVars>>
    /\ UNCHANGED <<ws, closed, recvVars, connVars, closeVars, errResp,
                   lVars, qBuf, qGot, pVars, fVars>>

\* the abandoned generator is finalized (the loop's asynchronous-generator
\* hook schedules aclose() once the object is collected): GeneratorExit is
\* raised at its yield and the with is left
MonitorFinalize ==
    /\ monGen = "suspended"
    /\ monGen' = "closed"
    /\ MonitorQueueExit
    /\ TransportIdle
    /\ UNCHANGED <<lVars, qBuf, qGot, monPc, monCb, monLast, monReq, monCancel, monTasks>>

(* ------------------------------- pacer -------------------------------- *)
\* what a step of wait_until_simulation_time leaves alone
\* and the scheduled puts: callbacks run in the order they were scheduled,
\* so every put still waiting is ahead of the task's next wake-up
PacerFrame ==
    /\ qSched' = [k \in 1..Len(qSched) |-> [qSched[k] EXCEPT !.ahead = FALSE]]
    /\ UNCHANGED <<ws, closed, recvVars, connVars, closeVars, errResp,
                   last_pause_nanos, qGot, mVars, fVars>>

\* the task's wake-up is the next callback that touches the pause queue
PacerTurn == \A k \in 1..Len(qSched) : qSched[k].ahead

\* the target taken as the distance still to run, whatever the clock says
RemainingFromZero(target) == target

\* remaining_nanos = seconds * 1e9 - self.last_pause_nanos
RemainingNanos(target) == target - last_pause_nanos

\* wait_until_simulation_time returns
PacerReturn(item) ==
    /\ pacPc' = "idle"
    /\ pacGot' = item
    /\ pacPrev' = Append(pacPrev, [call |-> pacCalls, target |-> pacTarget,
                                   clock |-> last_pause_nanos])
    /\ UNCHANGED <<pacCalls, pacReq, pacTarget, pacSent>>

\* the call ends with the exception of its request
PacerFails ==
    /\ pacPc' = "failed"
    /\ UNCHANGED <<pacCalls, pacReq, pacTarget, pacSent, pacGot, pacPrev>>

\* wait_until_simulation_time(seconds) up to the send of its sim:pause command
PacerCall(target) ==
    /\ pacPc \in {"idle", "failed"}
    /\ pacCalls < MaxCalls
    /\ pacCalls' = pacCalls + 1
    /\ pacTarget' = target
    /\ pacGot' = NoItem
    /\ IF ws = "none"
       THEN /\ pacPc' = "failed"
            /\ pacSent' = <<>>
            /\ UNCHANGED <<reqVars, pacReq>>
       ELSE /\ Register
            /\ pacReq' = next_id
            /\ pacPc' = "pause"
            /\ pacSent' = <<"sim:pause">>
    /\ PacerFrame
    /\ UNCHANGED <<event_listeners, dispVars, qState, qBuf, pacPrev>>

\* the send of the command raises
PacerSendFailed ==
    /\ pacPc \in {"pause", "resume"}
    /\ reqPc[pacReq] = "send"
    /\ ws \in {"dropped", "closed"}
    /\ reqPc' = [reqPc EXCEPT ![pacReq] = "send_failed"]
    /\ PacerFails
    /\ PacerFrame
    /\ UNCHANGED <<next_id, response_futures, fut, sets, event_listeners,
                   dispVars, qState, qBuf>>

\* await pause(...) is over.  remaining_nanos = seconds * 1e9 - last_pause_nanos;
\* if it is positive: the pause queue is created if missing, flushed, and the
\* sim:resume command is registered and handed to send
PacerPaused ==
    /\ pacPc = "pause"
    /\ PacerTurn
    /\ reqPc[pacReq] = "wait"
    /\ fut[pacReq].st \in {"result", "exc"}
    /\ IF Outcome(fut[pacReq]) # "returned"
       THEN /\ Resumed(pacReq)
            /\ PacerFails
            /\ UNCHANGED <<event_listeners, dispVars, qState, qBuf>>
       ELSE IF RemainingNanos(pacTarget) <= 0
       THEN /\ Resumed(pacReq)
            /\ PacerReturn(NoItem)
            /\ UNCHANGED <<event_listeners, dispVars, qState, qBuf>>
       ELSE /\ qState' = [qState EXCEPT !["pause_queue"] = "open"]
            /\ IF qState["pause_queue"] = "none"
               THEN AddListener(QueueType("pause_queue"), "pause_queue")
               ELSE UNCHANGED <<event_listeners, dispVars>>
            /\ qBuf' = [qBuf EXCEPT !["pause_queue"] = <<>>]
            /\ reqPc' = [reqPc EXCEPT ![pacReq] = "returned", ![next_id] = "send"]
            /\ response_futures' = (response_futures \ {pacReq}) \cup {next_id}
            /\ next_id' = next_id + 1
            /\ fut' = [fut EXCEPT ![next_id] = FutPending]
            /\ pacReq' = next_id
            /\ pacPc' = "resume"
            /\ pacSent' = Append(pacSent, "sim:resume")
            /\ UNCHANGED <<sets, pacCalls, pacTarget, pacGot, pacPrev>>
    /\ PacerFrame

\* await resume(...) is over; await self._pause_queue.get() returns at once
\* when the queue holds an event, and suspends otherwise
PacerResumed ==
    /\ pacPc = "resume"
    /\ PacerTurn
    /\ reqPc[pacReq] = "wait"
    /\ fut[pacReq].st \in {"result", "exc"}
    /\ Resumed(pacReq)
    /\ IF Outcome(fut[pacReq]) # "returned"
       THEN PacerFails /\ UNCHANGED qBuf
       ELSE IF qBuf["pause_queue"] # <<>>
       THEN /\ qBuf' = [qBuf EXCEPT !["pause_queue"] = Tail(@)]
            /\ PacerReturn(Head(qBuf["pause_queue"]))
       ELSE /\ pacPc' = "get"
            /\ UNCHANGED <<qBuf, pacCalls, pacReq, pacTarget, pacSent, pacGot, pacPrev>>
    /\ PacerFrame
    /\ UNCHANGED <<event_listeners, dispVars, qState>>

\* the suspended get() resumes with the oldest event of the queue
PacerGot ==
    /\ pacPc = "get"
    /\ PacerTurn
    /\ qBuf["pause_queue"] # <<>>
    /\ qBuf' = [qBuf EXCEPT !["pause_queue"] = Tail(@)]
    /\ PacerReturn(Head(qBuf["pause_queue"]))
    /\ PacerFrame
    /\ UNCHANGED <<reqVars, event_listeners, dispVars, qState>>

\* the put_nowait calls the EventQueue closures among the listeners schedule
Puts(listeners, nanos) ==
    [k \in 1..Len(SelectSeq(listeners, LAMBDA l : l \in Queues)) |->
        [queue |-> SelectSeq(listeners, LAMBDA l : l \in Queues)[k],
         item |-> Item(nanos, ResumeSentBy),
         ahead |-> PacerWoken]]

\* a clock that no listener updates
ClockKept(listeners, nanos) == last_pause_nanos

\* self.last_pause_nanos after the listeners ran: _on_pause stores event["nanos"]
\* a clock that only the first pause event sets
ClockOnce(listeners, nanos) == IF last_pause_nanos = 0 THEN nanos ELSE last_pause_nanos

ClockAfter(listeners, nanos) ==
    IF \E k \in 1..Len(listeners) : listeners[k] = "_on_pause"
    THEN nanos ELSE last_pause_nanos

\* The server sends a sim:pause event; its clock does not go backwards.
\* _on_pause and the closure of an EventQueue are plain functions, so
\* _dispatch_event calls them without suspending: the frame and its
\* listeners are one step of the loop.
ServerPause(nanos) ==
    /\ nanos >= last_pause_nanos
    /\ recvPc = "recv"
    /\ ~recvCancel
    /\ ws = "open"
    /\ Len(qSched) + Len(qBuf["pause_queue"]) < MaxQueue
    /\ LET listeners == ListenersFor(event_listeners, "sim:pause")
       IN  /\ last_pause_nanos' = ClockAfter(listeners, nanos)
           /\ qSched' = qSched \o Puts(listeners, nanos)
    /\ NextIteration(fut)
    /\ UNCHANGED <<next_id, ws, closed, response_futures, reqPc, recvCancel,
                   connVars, closeVars, event_listeners, errResp, yVars>>

(* --------------------------- blocking facade -------------------------- *)
\* what no step of the facade touches: the WokwiClient behind it
ClientIdle ==
    UNCHANGED <<next_id, ws, closed, response_futures, fut, sets, reqPc, recvVars,
                connVars, closeVars, event_listeners, dispVars, errResp, lVars,
                qVars, mVars, pVars>>

\* a disconnect() that tears down whatever self._closed says
NeverClosed == FALSE

\* if self._closed
AlreadyClosed == sync_closed

\* a wait without timeout: it ends only when what it waits for has happened
UnboundedWait(done, late) == done

\* fut.result(timeout=...), thread.join(timeout=...): the wait ends when what
\* it waits for has happened, and at the timeout when that is late: the
\* loop's thread is inside a callback, or the awaited coroutine hangs
BoundedWait(done, late) == done \/ late

\* contextlib.suppress(FutureTimeoutError, Exception): what the with block discards
Suppressed(e) ==
    e \in {"none", "TimeoutError", "CancelledError", "RuntimeError", "WokwiError"}

\* loop.is_running(), thread.is_alive()
LoopIsRunning == loopState \in {"running", "stuck"}

\* the futures created so far
Submitted == {k \in BgIds : bgFut[k] # "none"}

\* _call(coro): connect() and every coroutine method reached through
\* __getattr__.  future.result() has no timeout: the caller gets the outcome
\* when the loop runs the coroutine and its request resolves, and stays in
\* result() otherwise
SyncCall(op, resolves) ==
    /\ syncPc = "idle"
    /\ IF sync_closed
       THEN lastCall' = Call(op, "ClosedError") /\ UNCHANGED syncPc
       ELSE IF loopState = "running" /\ resolves
       THEN lastCall' = Call(op, "returned") /\ UNCHANGED syncPc
       ELSE syncPc' = "hung" /\ lastCall' = Call(op, "-")
    /\ UNCHANGED <<sync_closed, bg_futures, bgFut, bgTask, bgLast, loopState, discFut, stopReq>>
    /\ UNCHANGED otherCall
    /\ ClientIdle

\* serial_monitor / serial_monitor_cat up to run_coroutine_threadsafe, which
\* raises when the loop is closed
SyncSerialMonitor(op) ==
    /\ syncPc = "idle"
    /\ IF loopState = "closed"
       THEN /\ lastCall' = Call(op, "LoopClosedError")
            /\ UNCHANGED <<bgFut, bgTask, bgLast, syncPc>>
       ELSE /\ Cardinality(Submitted) < MaxMonitors
            /\ LET k == Cardinality(Submitted) + 1
               IN  /\ bgFut' = [bgFut EXCEPT ![k] = "pending"]
                   /\ bgTask' = [bgTask EXCEPT ![k] = "queued"]
            /\ syncPc' = "add"
            /\ UNCHANGED bgLast
            /\ lastCall' = Call(op, "-")
    /\ UNCHANGED <<sync_closed, bg_futures, loopState, discFut, stopReq>>
    /\ UNCHANGED otherCall
    /\ ClientIdle

\* self._bg_futures.add(task_future); the call returns
SyncAdd ==
    /\ syncPc = "add"
    /\ bg_futures' = bg_futures \cup {Cardinality(Submitted)}
    /\ syncPc' = "idle"
    /\ lastCall' = Call(lastCall.op, "returned")
    /\ UNCHANGED <<sync_closed, bgFut, bgTask, bgLast, loopState, discFut, stopReq>>
    /\ UNCHANGED otherCall
    /\ ClientIdle

\* first step of a runner on the loop: monitor_lines sends its request and
\* waits on its queue, or the request raises and the runner ends (finally:
\* discard).  A runner whose future was cancelled before is cancelled unstarted.
BgStart(k, ok) ==
    /\ loopState = "running"
    /\ bgTask[k] = "queued"
    /\ IF bgFut[k] = "cancelled"
       THEN /\ bgTask' = [bgTask EXCEPT ![k] = "ended"]
            /\ UNCHANGED <<bgFut, bg_futures>>
       ELSE IF ok
       THEN /\ bgTask' = [bgTask EXCEPT ![k] = "waiting"]
            /\ UNCHANGED <<bgFut, bg_futures>>
       ELSE /\ bgTask' = [bgTask EXCEPT ![k] = "ended"]
            /\ bgFut' = [bgFut EXCEPT ![k] = "done"]
            /\ bg_futures' = bg_futures \ {k}
    /\ UNCHANGED <<sync_closed, bgLast, loopState, syncPc, discFut, stopReq, lastCall>>
    /\ UNCHANGED otherCall
    /\ ClientIdle

\* a line arrives and the runner calls the callback, which returns, raises,
\* never returns (the loop's thread stays inside it), or returns an awaitable
\* that never completes.  An exception that leaves _runner ends the task
\* (finally: discard) and completes its future.
BgLine(k, cb) ==
    /\ loopState = "running"
    /\ bgTask[k] = "waiting"
    /\ bgFut[k] = "pending"
    /\ bgLast' = <<k, cb>>
    /\ IF cb \in {"returns", "raises"} /\ ~CallbackHandled(cb)
       THEN /\ bgTask' = [bgTask EXCEPT ![k] = "ended"]
            /\ bgFut' = [bgFut EXCEPT ![k] = "done"]
            /\ bg_futures' = bg_futures \ {k}
       ELSE /\ bgTask' = [bgTask EXCEPT ![k] = CASE cb = "blocks" -> "in_callback"
                                                  [] cb = "awaits" -> "awaiting"
                                                  [] OTHER -> "waiting"]
            /\ UNCHANGED <<bg_futures, bgFut>>
    /\ loopState' = IF cb = "blocks" THEN "stuck" ELSE loopState
    /\ UNCHANGED <<sync_closed, syncPc, discFut, stopReq, lastCall>>
    /\ UNCHANGED otherCall
    /\ ClientIdle

\* the cancellation of the future reaches the suspended runner: finally: discard
BgCancelled(k) ==
    /\ loopState = "running"
    /\ bgFut[k] = "cancelled"
    /\ bgTask[k] \in {"waiting", "awaiting"}
    /\ bgTask' = [bgTask EXCEPT ![k] = "ended"]
    /\ bg_futures' = bg_futures \ {k}
    /\ UNCHANGED <<sync_closed, bgFut, bgLast, loopState, syncPc, discFut, stopReq, lastCall>>
    /\ UNCHANGED otherCall
    /\ ClientIdle

\* the loop runs the submitted WokwiClient.disconnect(): to its end, or up
\* to a close of the connection that gets no answer from a dead peer
LoopDisconnect(dead) ==
    /\ loopState = "running"
    /\ discFut = "queued"
    /\ discFut' = IF dead THEN "hanging" ELSE "done"
    /\ UNCHANGED <<sync_closed, bg_futures, bgFut, bgTask, bgLast, loopState, syncPc,
                   stopReq, lastCall>>
    /\ UNCHANGED otherCall
    /\ ClientIdle

\* the loop runs loop.stop: run_forever returns and the thread ends
LoopStop ==
    /\ loopState = "running"
    /\ stopReq
    /\ loopState' = "stopped"
    /\ UNCHANGED <<sync_closed, bg_futures, bgFut, bgTask, bgLast, syncPc, discFut,
                   stopReq, lastCall>>
    /\ UNCHANGED otherCall
    /\ ClientIdle

\* disconnect(): if self._closed: return; (1) cancel every tracked future
Disconnect ==
    /\ syncPc = "idle"
    /\ IF AlreadyClosed
       THEN /\ lastCall' = Call("disconnect", "no-op")
            /\ UNCHANGED <<bgFut, syncPc>>
       ELSE /\ bgFut' = [k \in BgIds |-> IF k \in bg_futures /\ bgFut[k] = "pending"
                                         THEN "cancelled" ELSE bgFut[k]]
            /\ syncPc' = "drain"
            /\ lastCall' = Call("disconnect", "-")
    /\ UNCHANGED <<sync_closed, bg_futures, bgTask, bgLast, loopState, discFut, stopReq>>
    /\ UNCHANGED otherCall
    /\ ClientIdle

\* a drain that goes on to the Connection with futures still tracked
DrainSkipped ==
    /\ syncPc = "drain"
    /\ syncPc' = "transport"
    /\ UNCHANGED <<sync_closed, bg_futures, bgFut, bgTask, bgLast, loopState, discFut,
                   stopReq, lastCall>>
    /\ UNCHANGED otherCall
    /\ ClientIdle

\* (1) for each tracked future: result(timeout=1.0) under suppress, discard
DisconnectDrain ==
    /\ syncPc = "drain"
    /\ IF bg_futures = {}
       THEN syncPc' = "transport" /\ UNCHANGED bg_futures
       ELSE \E k \in bg_futures :
              /\ BoundedWait(bgFut[k] # "pending", loopState = "stuck")
              /\ LET e == CASE bgFut[k] = "pending" -> "TimeoutError"
                             [] bgFut[k] = "cancelled" -> "CancelledError"
                             [] OTHER -> "WokwiError"
                 IN  syncPc' = IF Suppressed(e) THEN "drain" ELSE "raised"
              /\ bg_futures' = bg_futures \ {k}
    /\ UNCHANGED <<sync_closed, bgFut, bgTask, bgLast, loopState, discFut, stopReq, lastCall>>
    /\ UNCHANGED otherCall
    /\ ClientIdle

\* (2) run_coroutine_threadsafe(self._async_client.disconnect(), self._loop)
DisconnectTransport ==
    /\ syncPc = "transport"
    /\ IF loopState = "closed"
       THEN /\ syncPc' = IF Suppressed("RuntimeError") THEN "stop" ELSE "raised"
            /\ UNCHANGED discFut
       ELSE /\ discFut' = "queued"
            /\ syncPc' = "wait_transport"
    /\ UNCHANGED <<sync_closed, bg_futures, bgFut, bgTask, bgLast, loopState, stopReq, lastCall>>
    /\ UNCHANGED otherCall
    /\ ClientIdle

\* (2) fut.result(timeout=2.0) under suppress
DisconnectTransportDone ==
    /\ syncPc = "wait_transport"
    /\ BoundedWait(discFut = "done", loopState = "stuck" \/ discFut = "hanging")
    /\ LET e == IF discFut = "done" THEN "none" ELSE "TimeoutError"
       IN  syncPc' = IF Suppressed(e) THEN "stop" ELSE "raised"
    /\ UNCHANGED <<sync_closed, bg_futures, bgFut, bgTask, bgLast, loopState, discFut,
                   stopReq, lastCall>>
    /\ UNCHANGED otherCall
    /\ ClientIdle

\* (3) if self._loop.is_running(): call_soon_threadsafe(self._loop.stop)
DisconnectStop ==
    /\ syncPc = "stop"
    /\ stopReq' = (stopReq \/ LoopIsRunning)
    /\ syncPc' = "join"
    /\ UNCHANGED <<sync_closed, bg_futures, bgFut, bgTask, bgLast, loopState, discFut, lastCall>>
    /\ UNCHANGED otherCall
    /\ ClientIdle

\* (3) if self._thread.is_alive(): self._thread.join(timeout=5.0);
\* (4) self._loop.close() under suppress: it raises while the loop runs;
\* (5) self._closed = True
DisconnectJoin ==
    /\ syncPc = "join"
    /\ BoundedWait(~LoopIsRunning, loopState = "stuck")
    /\ loopState' = IF loopState = "stopped" THEN "closed" ELSE loopState
    /\ syncPc' = IF Suppressed(IF LoopIsRunning THEN "RuntimeError" ELSE "none")
                 THEN "idle" ELSE "raised"
    /\ sync_closed' = TRUE
    /\ lastCall' = Call("disconnect", "returned")
    /\ UNCHANGED <<bg_futures, bgFut, bgTask, bgLast, discFut, stopReq>>
    /\ UNCHANGED otherCall
    /\ ClientIdle

\* disconnect() has passed its `if self._closed: return` and has not yet set
\* self._closed = True
TeardownInProgress ==
    syncPc \in {"drain", "transport", "wait_transport", "stop", "join"}

\* _call(coro) on a second thread: the self._closed check, then
\* run_coroutine_threadsafe, which raises only on a closed loop, then the
\* thread is in future.result()
OtherCall ==
    /\ otherCall = "-"
    /\ otherCall' = IF sync_closed THEN "ClosedError"
                    ELSE IF loopState = "closed" THEN "LoopClosedError"
                    ELSE "submitted"
    /\ UNCHANGED <<sync_closed, bg_futures, bgFut, bgTask, bgLast, loopState, syncPc,
                   discFut, stopReq, lastCall>>
    /\ ClientIdle

\* the loop runs the coroutine of that call to its end and the result or the
\* exception reaches the future: result() returns or raises
LoopRunsCall(outcome) ==
    /\ loopState = "running"
    /\ otherCall = "submitted"
    /\ otherCall' = outcome
    /\ UNCHANGED <<sync_closed, bg_futures, bgFut, bgTask, bgLast, loopState, syncPc,
                   discFut, stopReq, lastCall>>
    /\ ClientIdle

(* --------------------------- specification ---------------------------- *)
Next ==
    \/ \E te \in BOOLEAN : ConnectStart(te)
    \/ ConnectOpened
    \/ ConnectOpenFail
    \/ \E b \in Bursts : ConnectHello(b)
    \/ ConnectHelloClosed
    \/ PeerDrop
    \/ RequestNotConnected
    \/ RequestStart
    \/ \E i \in Ids : RequestSent(i)
    \/ \E i \in Ids : RequestSendFailed(i)
    \/ \E i \in Ids : RequestCancelSend(i)
    \/ \E i \in Ids : RequestCancel(i)
    \/ \E i \in Ids : RequestCancelled(i)
    \/ \E i \in Ids : RequestResume(i)
    \/ RecvStart
    \/ \E b \in Bursts : RecvFrame(b)
    \/ \E o \in {"ok", "raise"} : DispatchListener(o)
    \/ RecvConnClosed
    \/ RecvHandlerClose
    \/ RecvCancelled
    \/ CloseStart
    \/ CloseJoined
    \/ CloseWsClosed

Spec == Init /\ [][Next]_vars

\* One Transport over several connect() and close() calls.  The model follows
\* the socket and the task the Transport refers to: what a later connect()
\* overwrites is out of its sight from then on.
LifecycleNext ==
    \/ ConnectStart(TRUE)
    \/ ConnectAgain(TRUE)
    \/ ConnectOpened
    \/ ConnectOpenFail
    \/ \E b \in {<<HelloMsg(PROTOCOL_VERSION, TRUE)>>, <<ErrorMsg>>} : ConnectHello(b)
    \/ ConnectHelloClosed
    \/ PeerDrop
    \/ RequestNotConnected
    \/ RequestStart
    \/ \E i \in 1..MaxReq : RequestSent(i)
    \/ \E i \in 1..MaxReq : RequestSendFailed(i)
    \/ \E i \in 1..MaxReq : RequestResume(i)
    \/ RecvStart
    \/ \E i \in 1..MaxReq : RecvFrame(<<ResponseMsg(i, FALSE)>>)
    \/ RecvConnClosed
    \/ RecvHandlerClose
    \/ RecvCancelled
    \/ CloseStart
    \/ CloseJoined
    \/ CloseWsClosed

LifecycleSpec == Init /\ [][LifecycleNext]_vars

\* The listener table and the dispatch of events: one Transport whose users
\* register and remove callbacks while the server sends events.
ListenerBursts == {<<EventMsg(t, 1)>> : t \in EventTypes} \cup {<<GarbageMsg>>}

ListenerNext ==
    \/ \E te \in BOOLEAN : ConnectStart(te)
    \/ ConnectOpened
    \/ \E b \in {<<HelloMsg(PROTOCOL_VERSION, TRUE)>>, <<ErrorMsg>>} : ConnectHello(b)
    \/ PeerDrop
    \/ \E t \in EventTypes, cb \in Callbacks : AddEventListener(t, cb)
    \/ \E t \in EventTypes, cb \in Callbacks : RemoveEventListener(t, cb)
    \/ RecvStart
    \/ \E b \in ListenerBursts : RecvFrame(b)
    \/ \E o \in {"ok", "raise"} : DispatchListener(o)
    \/ RecvConnClosed
    \/ RecvHandlerClose
    \/ RecvCancelled
    \/ CloseStart
    \/ CloseJoined
    \/ CloseWsClosed

ListenerSpec == Init /\ [][ListenerNext]_vars

\* Listeners that call request() and await it, next to requests of other
\* tasks, on a connection that stays up until close()
ReentrantNext ==
    \/ ConnectStart(TRUE)
    \/ ConnectOpened
    \/ ConnectHello(<<HelloMsg(PROTOCOL_VERSION, TRUE)>>)
    \/ AddEventListener("serial-monitor:data", "cb1")
    \/ RecvStart
    \/ RecvFrame(<<EventMsg("serial-monitor:data", 1)>>)
    \/ \E i \in Ids : RecvFrame(<<ResponseMsg(i, FALSE)>>)
    \/ DispatchListener("ok")
    \/ ListenerRequest
    \/ ListenerCancelled
    \/ RequestStart
    \/ \E i \in Ids : RequestSent(i)
    \/ \E i \in Ids : RequestResume(i)
    \/ RecvCancelled
    \/ CloseStart
    \/ CloseJoined
    \/ CloseWsClosed

ReentrantSpec == Init /\ [][ReentrantNext]_vars

\* An EventQueue and its user on a Transport that receives events
QueueNext ==
    \/ ConnectStart(TRUE)
    \/ ConnectOpened
    \/ ConnectHello(<<HelloMsg(PROTOCOL_VERSION, TRUE)>>)
    \/ RecvStart
    \/ \E t \in EventTypes, n \in 1..MaxNanos : ServerEvent(t, n)
    \/ DispatchListener("ok")
    \/ QueueInit("user_queue")
    \/ QueueClose("user_queue")
    \/ QueuePut
    \/ QueueGetNowait("user_queue")
    \/ QueueGet("user_queue")
    \/ QueueFlush("user_queue")

QueueSpec == Init /\ [][QueueNext]_vars

\* One serial monitor of a WokwiClient, the server's responses and serial
\* events, stop_serial_monitors and disconnect.  Closing an open connection
\* suspends disconnect(); whether closing one that the peer dropped does is
\* left open.
MonitorNext ==
    \/ ConnectStart(TRUE)
    \/ ConnectOpened
    \/ ConnectHello(<<HelloMsg(PROTOCOL_VERSION, TRUE)>>)
    \/ PeerDrop
    \/ RecvStart
    \/ \E n \in 1..MaxNanos : ServerEvent("serial-monitor:data", n)
    \/ \E i \in Ids : RecvFrame(<<ResponseMsg(i, FALSE)>>)
    \/ DispatchListener("ok")
    \/ RecvConnClosed
    \/ RecvHandlerClose
    \/ QueuePut
    \/ \E i \in Ids : RequestSent(i)
    \/ \E k \in {"sync", "async"} : SerialMonitor(k)
    \/ MonitorStart
    \/ MonitorSendFailed
    \/ MonitorListenDone
    \/ \E p \in {"ok", "bad"}, o \in {"returns", "raises"} : MonitorLine(p, o)
    \/ \E o \in {"returns", "raises"} : MonitorCallbackDone(o)
    \/ StopSerialMonitors
    \/ MonitorCancelled
    \/ MonitorFinalize
    \/ ClientDisconnect
    \/ RecvCancelled
    \/ MonitorWoken /\ CloseJoined
    \/ (ws = "open" => MonitorWoken) /\ CloseWsClosed

MonitorSpec == Init /\ [][MonitorNext]_vars

\* The serial monitor of a WokwiClient on a connection that stays up, next
\* to the serial monitors of a WokwiClientSync: lines arrive and the
\* callbacks return or raise
CallbackNext ==
    \/ ConnectStart(TRUE)
    \/ ConnectOpened
    \/ ConnectHello(<<HelloMsg(PROTOCOL_VERSION, TRUE)>>)
    \/ RecvStart
    \/ \E n \in 1..MaxNanos : ServerEvent("serial-monitor:data", n)
    \/ \E i \in Ids : RecvFrame(<<ResponseMsg(i, FALSE)>>)
    \/ DispatchListener("ok")
    \/ QueuePut
    \/ \E i \in Ids : RequestSent(i)
    \/ \E k \in {"sync", "async"} : SerialMonitor(k)
    \/ MonitorStart
    \/ MonitorListenDone
    \/ \E o \in {"returns", "raises"} : MonitorLine("ok", o)
    \/ \E o \in {"returns", "raises"} : MonitorCallbackDone(o)
    \/ SyncSerialMonitor("serial_monitor")
    \/ SyncAdd
    \/ \E k \in BgIds, ok \in BOOLEAN : BgStart(k, ok)
    \/ \E k \in BgIds, cb \in {"returns", "raises"} : BgLine(k, cb)

CallbackSpec == Init /\ [][CallbackNext]_vars

\* Consecutive wait_until_simulation_time calls of one WokwiClient, the
\* server's responses and sim:pause events
PacerNext ==
    \/ ConnectStart(TRUE)
    \/ ConnectOpened
    \/ ConnectHello(<<HelloMsg(PROTOCOL_VERSION, TRUE)>>)
    \/ PeerDrop
    \/ RecvStart
    \/ \E n \in 1..MaxNanos : ServerPause(n)
    \/ \E i \in Ids : RecvFrame(<<ResponseMsg(i, FALSE)>>)
    \/ RecvConnClosed
    \/ RecvHandlerClose
    \/ QueuePut
    \/ \E i \in Ids : RequestSent(i)
    \/ \E t \in 1..MaxNanos : PacerCall(t)
    \/ PacerSendFailed
    \/ PacerPaused
    \/ PacerResumed
    \/ PacerGot

PacerSpec == Init /\ [][PacerNext]_vars

\* the steps of disconnect() after its first
DisconnectSteps ==
    \/ DisconnectDrain
    \/ DisconnectTransport
    \/ DisconnectTransportDone
    \/ DisconnectStop
    \/ DisconnectJoin

\* what the loop runs for disconnect()
LoopSteps ==
    \/ \E dead \in BOOLEAN : LoopDisconnect(dead)
    \/ LoopStop

\* One WokwiClientSync: the thread that calls it, and its loop thread
FacadeNext ==
    \/ \E op \in {"connect", "pause_simulation"}, r \in BOOLEAN : SyncCall(op, r)
    \/ \E op \in {"serial_monitor", "serial_monitor_cat"} : SyncSerialMonitor(op)
    \/ SyncAdd
    \/ \E k \in BgIds, ok \in BOOLEAN : BgStart(k, ok)
    \/ \E k \in BgIds, cb \in {"returns", "raises", "blocks", "awaits"} : BgLine(k, cb)
    \/ \E k \in BgIds : BgCancelled(k)
    \/ LoopSteps
    \/ Disconnect
    \/ DisconnectSteps
    \/ TeardownInProgress /\ OtherCall
    \/ \E o \in {"returned", "raised"} : LoopRunsCall(o)

\* both threads go on running: no step of disconnect() and no callback the
\* loop can run is postponed forever
FacadeSpec ==
    Init /\ [][FacadeNext]_vars /\ WF_vars(DisconnectSteps) /\ WF_vars(LoopSteps)

(* ------------------------------- claims -------------------------------- *)
\* connect() returned, nothing has marked the Transport closed, the loop lives
Connected ==
    /\ connPc = "done"
    /\ ~closed
    /\ recvPc \in {"created", "recv", "dispatch"}

C2_ErrorResponseRaisesServerError ==
    connPc = "done" =>
        \A i \in errResp :
            reqPc[i] \in {"returned", "raised", "server_error"} => reqPc[i] = "server_error"

\* C3: on a Transport whose connect() returned, a step of the loop that
\* receives an error-flagged response for a request whose caller awaits it
\* leaves the loop reading, the Transport not marked closed and every other
\* future as it was.
C3_ErrorResponseIsRecoverable ==
    [][\A b \in Bursts :
          LET m == SkipBinary(b)
          IN  (/\ connPc = "done"
               /\ m.type = MSG_TYPE_RESPONSE
               /\ m.error
               /\ m.id \in response_futures
               /\ reqPc[m.id] = "wait"
               /\ ~Done(fut[m.id])
               /\ RecvFrame(b))
              => /\ recvPc' = "recv"
                 /\ ~closed'
                 /\ \A j \in Ids \ {m.id} : fut'[j] = fut[j]]_vars

\* C4: on a Transport whose connect() returned and whose receive loop has
\* ended on a frame error, when close() has returned, no call registered
\* before that close() was called is still suspended on a future that is
\* pending.
C4_CloseFailsOutstanding ==
    (connPc = "done" /\ closePc = "done" /\ recvPc = "ended" /\ recvEnd = "error") =>
        \A i \in Ids :
            (i < closeNextId /\ reqPc[i] = "wait") => fut[i].st # "pending"

\* C5: once the loop has ended on ConnectionClosed, for either throw_error,
\* the Transport is marked closed, the connection is closed, no caller is
\* suspended on a pending future, and a future still pending belongs to a call
\* made afterwards that has not got past its send.
C5_DropFailsOutstanding ==
    (recvPc = "ended" /\ recvEnd = "conn_closed") =>
        /\ closed
        /\ ws = "closed"
        /\ \A i \in Ids :
               fut[i].st = "pending" => reqPc[i] \in {"send", "send_failed", "send_cancelled"}

\* C5 witness: throw_error is false, the peer dropped the connection, the loop
\* has ended and a suspended caller has resumed with ConnectionClosed.
C5_Witness ==
    /\ recvPc = "ended"
    /\ recvEnd = "conn_closed"
    /\ ~throw_error
    /\ \E i \in Ids : reqPc[i] = "raised" /\ fut[i].kind = "ConnectionClosed"

\* C6: on a Transport whose connect() returned, a request() call that has
\* finished, by any path, has no entry left in the pending-request table.
C6_NoEntryAfterRequest ==
    connPc = "done" => \A i \in Ids : Finished(i) => i \notin response_futures

\* C7: request() registers a pending request only in the Connected state.
C7_RequestOnlyWhenConnected ==
    [][next_id' # next_id => Connected]_vars

\* C8: close() on a Transport whose connect() returned never raises.
C8_CloseNeverRaises ==
    connPc = "done" => closePc # "raised"

\* C9 (as amended): when connect() receives its first text frame, it gets past
\* the handshake only for a hello frame with the supported protocolVersion;
\* for any other frame it fails and no receive-loop task is created, with
\* WokwiError when _recv rejects the frame (error frame, error-flagged
\* response, no type, not JSON) and with ProtocolError otherwise.
C9_HandshakeOutcome ==
    [][\A b \in Bursts :
          ConnectHello(b) =>
              LET m == SkipBinary(b)
              IN  IF m.raw = "json" /\ m.type = MSG_TYPE_HELLO /\ m.ver = PROTOCOL_VERSION
                  THEN recvPc' = "created"
                  ELSE /\ connPc' = "failed"
                       /\ recvPc' = "none"
                       /\ connErr' = IF \/ m.raw # "json"
                                        \/ m.type \in {"-", MSG_TYPE_ERROR}
                                        \/ (m.type = MSG_TYPE_RESPONSE /\ m.error)
                                     THEN "WokwiError"
                                     ELSE "ProtocolError"]_vars

\* C9 witness: the first frame was one that _recv rejects: connect() failed
\* with WokwiError and no task exists.
C9_Witness ==
    /\ connPc = "failed"
    /\ connErr = "WokwiError"
    /\ recvPc = "none"

\* C9 as stated: for every first text frame that is a hello frame with another
\* protocolVersion, an event, a response or an error frame, connect() fails
\* with ProtocolError and no receive-loop task is created.
C9_OtherFrameIsProtocolError ==
    [][\A b \in Bursts :
          LET m == SkipBinary(b)
          IN  (/\ m.raw = "json"
               /\ m.type # "-"
               /\ ~(m.type = MSG_TYPE_HELLO /\ m.ver = PROTOCOL_VERSION)
               /\ ConnectHello(b))
              => /\ connPc' = "failed"
                 /\ connErr' = "ProtocolError"
                 /\ recvPc' = "none"]_vars

\* C10: on a Transport whose connect() returned, a step of the loop that
\* receives a response whose id has no pending future (never issued, already
\* fulfilled, or cancelled) leaves the loop reading and changes neither the
\* table, nor any future, nor the closed flag.
C10_UnmatchedResponseDiscarded ==
    [][\A b \in Bursts :
          LET m == SkipBinary(b)
          IN  (/\ connPc = "done"
               /\ m.type = MSG_TYPE_RESPONSE
               /\ (m.id \notin response_futures \/ Done(fut[m.id]))
               /\ RecvFrame(b))
              => /\ recvPc' = "recv"
                 /\ closed' = closed
                 /\ fut' = fut
                 /\ response_futures' = response_futures]_vars

Others(list, cb) == SelectSeq(list, LAMBDA x : x # cb)

C13_ClosedQueueIsEmpty ==
    [][\A q \in Queues :
          /\ QueueClose(q) => qBuf'[q] = <<>>
          /\ (qState[q] = "closed" /\ QueueGetNowait(q)) => qGot' = "QueueEmpty"]_vars

\* the callable is in the list of some event type
Registered(listener) ==
    \E t \in DOMAIN event_listeners :
        \E k \in 1..Len(event_listeners[t]) : event_listeners[t][k] = listener

\* C14: once the serial-monitor task has ended, by whatever path, the
\* listener of the EventQueue that monitor_lines created is not registered.
C14_NoRegistrationAfterConsumer ==
    monPc = "ended" => ~Registered("monitor_queue")

\* C15: a wait_until_simulation_time call that follows a call with the same
\* target which returned with the clock at or past that target sends one
\* sim:pause command and no sim:resume command, and never waits on the pause
\* queue.
C15_SecondCallOnlyPauses ==
    \A k \in 1..Len(pacPrev) :
        (/\ pacPrev[k].call = pacCalls - 1
         /\ pacPrev[k].target = pacTarget
         /\ pacPrev[k].clock >= pacTarget)
        => /\ pacSent \in {<<>>, <<"sim:pause">>}
           /\ pacPc \notin {"resume", "get"}
           /\ pacGot = NoItem
           /\ pacPc = "idle" => pacSent = <<"sim:pause">>

\* C15 witness: the first call resumed the simulation and returned with the
\* clock at its target; the second call with the same target has returned.
C15_Witness ==
    /\ pacCalls = 2
    /\ pacPc = "idle"
    /\ Len(pacPrev) = 2
    /\ pacPrev[1].target = pacTarget
    /\ pacPrev[1].clock >= pacTarget
    /\ pacPrev[2].target = pacTarget
    /\ pacSent = <<"sim:pause">>
    /\ next_id = 4

\* C16: the event that lets a wait_until_simulation_time call return from
\* get() was handed to the pause queue's listener after that call had sent
\* its sim:resume command.
C16_UnblockedByFreshPause ==
    pacGot # NoItem => pacGot.call = pacCalls

\* C17 (as amended): when a call that issued a resume returns, the clock
\* listener has run for the event that unblocked it: last_pause_nanos holds
\* the nanos of that event or of a sim:pause event dispatched after it.
C17_ClockNotBehindUnblockingEvent ==
    [][(pacPc # "idle" /\ pacPc' = "idle" /\ pacGot' # NoItem)
       => last_pause_nanos' >= pacGot'.nanos]_vars

\* C17 witness: a call has returned on a pause event and the clock holds the
\* nanos of that event.
C17_Witness ==
    /\ pacPc = "idle"
    /\ pacGot # NoItem
    /\ pacGot.call = pacCalls
    /\ last_pause_nanos = pacGot.nanos
    /\ pacTarget = pacGot.nanos

\* C17 as stated: when a call that issued a resume returns, last_pause_nanos
\* is the nanos of the event that unblocked it.
C17_ClockIsUnblockingEvent ==
    [][(pacPc # "idle" /\ pacPc' = "idle" /\ pacGot' # NoItem)
       => last_pause_nanos' = pacGot'.nanos]_vars

\* C18: a disconnect() called on a facade whose earlier disconnect() has
\* returned cancels nothing, submits nothing, stops and joins nothing, raises
\* nothing and leaves the state of the facade as it was.
C18_SecondDisconnectIsNoOp ==
    [][(sync_closed /\ Disconnect)
       => /\ syncPc' = "idle"
          /\ lastCall' = Call("disconnect", "no-op")
          /\ UNCHANGED <<sync_closed, bg_futures, bgFut, bgTask, bgLast, loopState,
                         discFut, stopReq>>]_vars

\* C18 witness: a second disconnect() has returned on a facade that had a
\* monitor when it was torn down.
C18_Witness ==
    /\ sync_closed
    /\ lastCall = Call("disconnect", "no-op")
    /\ Submitted # {}
    /\ loopState = "closed"

\* C19: on a facade whose disconnect() has returned, connect, every delegated
\* call, serial_monitor and serial_monitor_cat fail at once with an error
\* that says closed, and leave nothing tracked or submitted to the loop.
C19_CallsAfterDisconnectFail ==
    [][(/\ sync_closed
        /\ \/ \E op \in {"connect", "pause_simulation"}, r \in BOOLEAN : SyncCall(op, r)
           \/ \E op \in {"serial_monitor", "serial_monitor_cat"} : SyncSerialMonitor(op))
       => /\ lastCall'.outcome \in {"ClosedError", "LoopClosedError"}
          /\ syncPc' = "idle"
          /\ UNCHANGED <<bg_futures, bgFut, bgTask, bgLast>>]_vars

\* C20: disconnect() never raises, and once started it returns and leaves
\* the facade marked closed, also when the loop's thread is inside a callback
\* that never returns.
C20_DisconnectReturns ==
    /\ [](syncPc # "raised")
    /\ [](lastCall = Call("disconnect", "returned") => sync_closed)
    /\ (syncPc = "drain") ~> (syncPc = "idle" /\ sync_closed)

\* C20 witness: disconnect() has returned on a facade whose loop thread is
\* inside a callback that never returns, and the facade is marked closed.
C20_Witness ==
    /\ sync_closed
    /\ syncPc = "idle"
    /\ loopState = "stuck"
    /\ lastCall = Call("disconnect", "returned")
    /\ \E k \in BgIds : bgTask[k] = "in_callback"

\* C21: a blocking facade call comes back to its caller, with the outcome of
\* the operation or with a timeout error: the calling thread is never left
\* inside future.result() for good.
C21_CallComesBack ==
    syncPc # "hung"

\* C22: an error frame, an unparsable frame or a frame without a type that
\* the receive loop reads stops the loop, marks the Transport closed and
\* fails every outstanding request, whatever throw_error is.
C22_FatalFrameClosesTransport ==
    [][\A b \in Bursts :
         (/\ RecvFrame(b)
          /\ \/ Recv(b).msg.raw = "garbage"
             \/ Recv(b).msg.type = "-"
             \/ Recv(b).msg.type = MSG_TYPE_ERROR)
         => /\ recvPc' \in {"h_close", "ended"}
            /\ closed'
            /\ \A i \in response_futures : Done(fut'[i])]_vars

\* C23: a callback of a serial monitor that raises is swallowed, for a plain
\* and for an awaited callback, in WokwiClient and in WokwiClientSync alike:
\* the runner is back at its wait for the next line, its queue is still open
\* and subscribed, and the monitor is still in the registry it was in.
C23_RaisingCallbackIsSwallowed ==
    [][/\ (\/ monCb = "sync" /\ MonitorLine("ok", "raises")
           \/ MonitorCallbackDone("raises"))
          => /\ monPc' = "get"
             /\ monGen' = "running"
             /\ monTasks'
             /\ qState'["monitor_queue"] = "open"
             /\ Registered("monitor_queue")'
       /\ \A k \in BgIds :
             BgLine(k, "raises")
             => /\ bgTask'[k] = "waiting"
                /\ bgFut'[k] = "pending"
                /\ (k \in bg_futures) = (k \in bg_futures')]_vars

\* C23 witness: the callback of the WokwiClient's monitor raised and the
\* callback for the next line is being awaited, and the last callback on the
\* facade's loop raised and its monitor is tracked and waits for lines.
C23_Witness ==
    /\ monLast = "raises"
    /\ monPc = "callback"
    /\ monTasks
    /\ bgLast[2] = "raises"
    /\ bgTask[bgLast[1]] = "waiting"
    /\ bgLast[1] \in bg_futures

\* C24: once WokwiClient.disconnect() has returned, a serial monitor that
\* had sent its listen request before the call (its request id is below the
\* next id at the call) is out of the task registry, is at no point from
\* which it calls its callback again, and its serial-data listener is no
\* longer registered on the Transport.
C24_NothingLeftAfterDisconnect ==
    (closePc = "done" /\ monReq \in 1..(closeNextId - 1))
    => /\ ~monTasks
       /\ monPc = "ended"
       /\ ~Registered("monitor_queue")

\* C25: over connect() and close() calls on one Transport, connect() never
\* puts a new socket in place of one that is still open, and never puts a
\* new receive-loop task in place of one that has not ended: no earlier
\* connection is left open and unowned, no second loop reads frames.
C25_NoSecondLoopNoOrphan ==
    [][/\ ConnectOpened => ws # "open"
       /\ (\E b \in Bursts : ConnectHello(b) /\ HandshakeOk(Recv(b).msg))
          => recvPc \in {"none", "ended"}]_vars

\* C26: once the Transport is marked closed, by close() or by the receive
\* loop, no step marks it open again.
C26_ClosedStaysClosed ==
    [][closed => closed']_vars

\* C27: request ids are the decimal strings of 1, 2, 3, ... in call order.
\* Only a request() that passed its connection check moves the counter, by
\* one, and the id it takes was never used and is not in the pending table;
\* the counter never goes back, also across close() and a later connect()
\* and after a send that failed; its string differs from the string of
\* every earlier id, and the pending table holds only ids handed out.
C27_IdsStrictlyIncreasing ==
    [][/\ RequestStart
          => /\ next_id' = next_id + 1
             /\ reqPc[next_id] = "none"
             /\ next_id \notin response_futures
             /\ response_futures' = response_futures \cup {next_id}
             /\ Decimal(1) = <<1>>
             /\ \A j \in 1..(next_id - 1) : Decimal(j) # Decimal(next_id)
       /\ next_id' # next_id => RequestStart
       /\ response_futures' \subseteq 1..(next_id' - 1)]_vars

\* C27 witness: an id was handed out before a close(), its send had failed,
\* and another one was handed out after the connect() that followed.
C27_Witness ==
    /\ closePc = "done"
    /\ closeNextId > 1
    /\ next_id > closeNextId
    /\ connPc = "done"
    /\ ~closed
    /\ \E i \in 1..(closeNextId - 1) : reqPc[i] = "send_failed"

\* C28: in the dispatch of one inbound event the listener that is called
\* has not been called for this event before, also when add_event_listener
\* was called more than once with the same callback for the type.
C28_AtMostOncePerEvent ==
    [][(DispatchListener("ok") \/ DispatchListener("raise"))
       => \A k \in 1..Len(dispCalled) : dispCalled[k] # dispList[dispIdx]]_vars

\* C29: a response frame that arrives for a pending request resolves that
\* request in the step that reads it, whatever the order the requests were
\* issued in, and every other pending request stays pending as it was.
C29_ResponsesInEmissionOrder ==
    [][\A b \in Bursts :
         LET m == Recv(b).msg
         IN  (/\ RecvFrame(b)
              /\ m.type = MSG_TYPE_RESPONSE
              /\ m.id \in response_futures
              /\ fut[m.id].st = "pending")
             => /\ fut'[m.id].st = "result"
                /\ fut'[m.id].id = m.id
                /\ \A i \in response_futures \ {m.id} : fut'[i] = fut[i]]_vars

\* the events that arrived for the user's queue and were not read yet, in
\* arrival order: those buffered, then those whose put_nowait is scheduled
C30_Unread ==
    LET mine == SelectSeq(qSched, LAMBDA e : e.queue = "user_queue")
    IN  qBuf["user_queue"] \o [k \in 1..Len(mine) |-> mine[k].item]

\* C30: an event that arrives while the queue is subscribed is dispatched
\* to the queue's listener once, and the call of the listener adds it behind
\* the unread events; get() and get_nowait() on a buffer that holds
\* something take the oldest unread event and nothing else; get_nowait() on
\* an empty buffer fails with empty-queue and get() does not return; nothing
\* but a read or a flush changes the unread events or their order.
C30_EveryEventOnceInOrder ==
    [][/\ \A n \in 1..MaxNanos :
             (ServerEvent(QueueType("user_queue"), n) /\ Registered("user_queue"))
             => Cardinality({k \in 1..Len(dispList') : dispList'[k] = "user_queue"}) = 1
       /\ (DispatchListener("ok") /\ dispList[dispIdx] = "user_queue")
             => C30_Unread' = Append(C30_Unread, Item(dispNanos, 0))
       /\ (QueueGetNowait("user_queue") \/ QueueGet("user_queue"))
             => IF qBuf["user_queue"] = <<>>
                THEN qGot' = "QueueEmpty" /\ ~QueueGet("user_queue")
                                          /\ C30_Unread' = C30_Unread
                ELSE qGot' = "item" /\ C30_Unread = <<Head(qBuf["user_queue"])>> \o C30_Unread'
       /\ C30_Unread' # C30_Unread
             => \/ DispatchListener("ok") /\ dispList[dispIdx] = "user_queue"
                \/ QueueGetNowait("user_queue") \/ QueueGet("user_queue")
                \/ QueueFlush("user_queue")]_vars

\* C30 witness: two different events arrived for the subscribed queue, the
\* reader has taken the first and the second is the one still buffered.
C30_Witness ==
    /\ qState["user_queue"] = "open"
    /\ Registered("user_queue")
    /\ qGot = "item"
    /\ qBuf["user_queue"] = <<Item(MaxNanos, 0)>>
    /\ qSched = <<>>

\* C31: flush() empties the buffer of its queue and changes nothing else:
\* the listener tables, the state of the queue, the puts that are scheduled
\* and the other buffers stay as they are, so a queue that was subscribed
\* still is and goes on buffering the events dispatched to it.
C31_FlushOnlyEmptiesBuffer ==
    [][QueueFlush("user_queue")
       => /\ qBuf'["user_queue"] = <<>>
          /\ \A q \in Queues \ {"user_queue"} : qBuf'[q] = qBuf[q]
          /\ UNCHANGED <<event_listeners, qState, qSched, dispVars>>
          /\ Registered("user_queue")' = Registered("user_queue")]_vars

\* C31 witness: the last thing the user did with the subscribed queue was a
\* flush(), and an event has been buffered since.
C31_Witness ==
    /\ qGot = "flushed"
    /\ qState["user_queue"] = "open"
    /\ Registered("user_queue")
    /\ qBuf["user_queue"] # <<>>

\* C32: last_pause_nanos is 0 before any sim:pause event, every sim:pause
\* event that is dispatched sets it to the nanos of that event, whether a
\* wait_until_simulation_time call is in progress or not, and no other step
\* changes it.
C32_ClockIsLastPauseEvent ==
    /\ last_pause_nanos = 0
    /\ [][/\ \A n \in 1..MaxNanos : ServerPause(n) => last_pause_nanos' = n
          /\ last_pause_nanos' # last_pause_nanos
                => \E n \in 1..MaxNanos : ServerPause(n)]_vars

\* C32 witness: no wait_until_simulation_time call was ever made, the
\* receive loop waits for the next frame and the clock holds the nanos of a
\* pause event.
C32_Witness ==
    /\ pacCalls = 0
    /\ pacPc = "idle"
    /\ recvPc = "recv"
    /\ last_pause_nanos = MaxNanos

\* C33: disconnect() takes its steps in this order, each after the one
\* before has ended or timed out: every tracked future is cancelled, then
\* waited for and dropped from the registry; only with the registry empty is
\* WokwiClient.disconnect() handed to the loop; loop.stop is requested only
\* after the wait for it has ended; the thread is joined after that; and the
\* facade is marked closed only at the end of the join step.
C33_TeardownOrder ==
    [][/\ syncPc' # syncPc
          => <<syncPc, syncPc'>> \in
                {<<"idle", "add">>, <<"add", "idle">>, <<"idle", "hung">>,
                 <<"idle", "drain">>, <<"drain", "transport">>,
                 <<"transport", "wait_transport">>, <<"transport", "stop">>,
                 <<"wait_transport", "stop">>, <<"stop", "join">>,
                 <<"join", "idle">>}
       /\ (syncPc = "idle" /\ syncPc' = "drain")
          => \A k \in bg_futures : bgFut'[k] # "pending"
       /\ DisconnectTransport => bg_futures = {}
       /\ discFut' # discFut /\ discFut = "none" => syncPc = "transport"
       /\ (syncPc = "wait_transport" /\ syncPc' = "stop")
          => discFut = "done" \/ loopState = "stuck" \/ discFut = "hanging"
       /\ stopReq' # stopReq => syncPc = "stop" /\ discFut \in {"done", "queued", "hanging"}
       /\ sync_closed' # sync_closed
          => /\ syncPc = "join"
             /\ loopState' \in {"closed", "stuck"}
             /\ bg_futures = {}
             /\ UNCHANGED <<bg_futures, bgFut, discFut, stopReq>>]_vars

\* C33 witness: a disconnect() of a facade with a monitor went through all
\* its steps: the future is cancelled and dropped, WokwiClient.disconnect()
\* ran on the loop, the loop was stopped and closed, the facade is closed.
C33_Witness ==
    /\ sync_closed
    /\ lastCall = Call("disconnect", "returned")
    /\ \E k \in BgIds : bgFut[k] = "cancelled"
    /\ bg_futures = {}
    /\ discFut = "done"
    /\ stopReq
    /\ loopState = "closed"

\* C34: as long as no disconnect() has begun, a monitor the facade has
\* submitted and whose serial_monitor call has returned is in the registry
\* exactly while its runner has not ended.
C34_RegistryTracksRunning ==
    (~sync_closed /\ syncPc = "idle")
    => \A k \in Submitted : (k \in bg_futures) = (bgTask[k] # "ended")

\* C35: the registry of background operations is state of the calling thread
\* only: it changes in no step the loop thread takes, only in steps of
\* serial_monitor() and disconnect() on the calling thread.
C35_RegistryOnCallingThread ==
    [][bg_futures' # bg_futures => SyncAdd \/ Disconnect \/ DisconnectDrain]_vars

\* C36: binary frames in front of a text frame change nothing: the step the
\* receive loop takes on them and the text frame is the step it takes on the
\* text frame alone (no future resolved, no listener called, no loop end on
\* their account), and so is the step of connect() where the handshake is
\* expected.
C36_BinaryFramesAreSkipped ==
    [][\A b \in Bursts :
          Len(b) > 1 =>
              /\ RecvFrame(b) => RecvFrame(<<b[Len(b)]>>)
              /\ ConnectHello(b) => ConnectHello(<<b[Len(b)]>>)]_vars

\* the handshake and a response have been read, binary frames in front of
\* them or not, and the loop is waiting for the next frame
C36_Witness ==
    /\ connPc = "done"
    /\ recvPc = "recv"
    /\ recvEnd = "none"
    /\ ~closed
    /\ \E i \in Ids : fut[i].st = "result"
    /\ ENABLED RecvFrame(<<BinaryMsg, EventMsg("serial-monitor:data", 0)>>)

\* C37: in every state in which the loop can read a serial-monitor:data event
\* and has read the response to the listen request of a monitor that has
\* neither ended nor been cancelled, the queue of that monitor is subscribed.
C37_NoLineLostAfterListen ==
    (/\ monPc # "ended"
     /\ ~monCancel
     /\ monReq \in Ids
     /\ reqPc[monReq] # "send"
     /\ fut[monReq].st = "result"
     /\ ENABLED ServerEvent("serial-monitor:data", 1))
    => Registered("monitor_queue")

\* C38: a listener that raises ends the receive loop: no further listener of
\* the event is called, the Transport is marked closed and every outstanding
\* request is failed with the listener's exception.
C38_RaisingListenerEndsLoop ==
    [][DispatchListener("raise")
       => /\ recvPc' \in {"h_close", "ended"}
          /\ dispCalled' = <<>> /\ dispIdx' = 0
          /\ UNCHANGED lVars
          /\ closed'
          /\ \A i \in response_futures :
                ~Done(fut[i]) => fut'[i] = FutExc(Exc("ListenerError"))]_vars

\* C39: while the loop's task is inside a listener that awaits request(), that
\* request is pending at its send or at its future, no pending future of any
\* request is given a result or an exception, the loop reads no frame and
\* calls no listener, and the only step that ends this is the cancellation of
\* the loop's task by close().
C39_RequestInListenerBlocks ==
    /\ [](dispReq # 0
          => /\ recvPc = "in_listener"
             /\ reqPc[dispReq] \in {"send", "wait"}
             /\ fut[dispReq].st = "pending")
    /\ [][recvPc = "in_listener"
          => /\ \A i \in Ids : fut[i].st = "pending" /\ recvPc' = "in_listener"
                                => fut'[i].st = "pending"
             /\ recvPc' = "in_listener" => UNCHANGED <<dispIdx, dispCalled, lVars>>
             /\ recvPc' # "in_listener" => ListenerCancelled /\ closePc = "await_task"]_vars

\* a listener waits for the response to its request and another request is
\* waiting too, on an open connection
C39_Witness ==
    /\ recvPc = "in_listener"
    /\ ws = "open"
    /\ ~closed
    /\ reqPc[dispReq] = "wait"
    /\ \E i \in Ids \ {dispReq} : reqPc[i] = "wait" /\ fut[i].st = "pending"

\* C40: a facade call that a second thread makes while disconnect() is in
\* progress is never left in future.result() on a loop that has stopped, from
\* where no step can bring it back.
C40_CallDuringDisconnectComesBack ==
    otherCall = "submitted" => loopState \notin {"stopped", "closed"}
====
